---- MODULE Spec2Model ----
(***************************************************************************)
(* A model of the `when` package: the When instant (an immutable UTC       *)
(* anchor seen through a mutable timezone view), the one-pass Substitutor  *)
(* behind formatting and parsing, When.from_string and                     *)
(* When.from_iso_format, pickling, and the While duration.                 *)
(*                                                                         *)
(* Text is modelled as sequences of one-character strings, so that         *)
(* tokenisation, padding, stripping and digit parsing are computed and     *)
(* never assumed.  An optional Python value is <<>> (None) or <<v>>.       *)
(***************************************************************************)
EXTENDS Integers, Sequences, FiniteSets, TLC

VARIABLES
    w,        \* the When (or While) under test, None before construction
    orig,     \* what w was constructed from, or the arguments of the call
    out,      \* what the last operation returned (or raised)
    sub       \* the Substitutor under test: its mapping, subject and result

vars == <<w, orig, out, sub>>

(***************************************************************************)
(* Python's None and optional values.                                      *)
(***************************************************************************)
None == <<>>

Some(v) == <<v>>

IsNone(o) == o = <<>>

Val(o) == o[1]

(***************************************************************************)
(* The proleptic Gregorian calendar of datetime.datetime: validation of    *)
(* the fields and the day count used by astimezone.                        *)
(***************************************************************************)
IsLeap(y) == (y % 4 = 0 /\ y % 100 # 0) \/ y % 400 = 0

DaysInMonth(y, m) ==
    IF m = 2 THEN (IF IsLeap(y) THEN 29 ELSE 28)
    ELSE IF m \in {4, 6, 9, 11} THEN 30 ELSE 31

\* days from 1970-01-01 to the civil date y-m-d
DaysFromCivil(y, m, d) ==
    LET yy  == IF m <= 2 THEN y - 1 ELSE y
        era == yy \div 400
        yoe == yy - era * 400
        mp  == IF m > 2 THEN m - 3 ELSE m + 9
        doy == (153 * mp + 2) \div 5 + d - 1
        doe == yoe * 365 + yoe \div 4 - yoe \div 100 + doy
    IN  era * 146097 + doe - 719468

\* the civil date <<y, m, d>> of a day count, by era (400 years), year of
\* the era, day of the year and month counted from March
CivilOfMonth(era, yoe, doy, mp) ==
    <<yoe + era * 400 + (IF mp < 10 THEN 0 ELSE 1),
      IF mp < 10 THEN mp + 3 ELSE mp - 9,
      doy - (153 * mp + 2) \div 5 + 1>>

CivilOfDayOfYear(era, yoe, doy) == CivilOfMonth(era, yoe, doy, (5 * doy + 2) \div 153)

CivilOfYearOfEra(era, doe, yoe) ==
    CivilOfDayOfYear(era, yoe, doe - (365 * yoe + yoe \div 4 - yoe \div 100))

CivilOfDayOfEra(era, doe) ==
    CivilOfYearOfEra(era, doe,
        (doe - doe \div 1460 + doe \div 36524 - doe \div 146096) \div 365)

CivilOfShifted(z) == CivilOfDayOfEra(z \div 146097, z % 146097)

CivilFromDays(n) == CivilOfShifted(n + 719468)

\* isoweekday: Monday is 1, Sunday is 7
IsoWeekday(y, m, d) == ((DaysFromCivil(y, m, d) + 3) % 7) + 1

\* minutes from the epoch to the civil minute of f (seconds are carried apart)
MinutesFromCivil(f) ==
    DaysFromCivil(f.year, f.month, f.day) * 1440 + f.hour * 60 + f.minute

\* the civil fields of the day ymd at minute rem of that day
FieldsOn(ymd, rem, s, us) ==
    [year |-> ymd[1], month |-> ymd[2], day |-> ymd[3],
     hour |-> rem \div 60, minute |-> rem % 60,
     second |-> s, microsecond |-> us]

\* the civil fields at t minutes from the epoch
FieldsAt(t, s, us) == FieldsOn(CivilFromDays(t \div 1440), t % 1440, s, us)

\* the fields of f moved by delta minutes (datetime + timedelta)
ShiftMinutes(f, delta) ==
    FieldsAt(MinutesFromCivil(f) + delta, f.second, f.microsecond)

Civil(y, m, d, h, mi, s, us) ==
    [year |-> y, month |-> m, day |-> d, hour |-> h, minute |-> mi,
     second |-> s, microsecond |-> us]

\* the calendrical fields of a datetime record, without its tzinfo
FieldsOf(dt) ==
    Civil(dt.year, dt.month, dt.day, dt.hour, dt.minute, dt.second, dt.microsecond)

\* datetime.datetime(...) accepts the fields
ValidFields(f) ==
    /\ f.year \in 1..9999
    /\ f.month \in 1..12
    /\ f.day \in 1..DaysInMonth(f.year, f.month)
    /\ f.hour \in 0..23
    /\ f.minute \in 0..59
    /\ f.second \in 0..59
    /\ f.microsecond \in 0..999999

(***************************************************************************)
(* The timezone registry and pytz's zones.  The registry module is not     *)
(* part of the sources at hand; it maps names to pytz zones.  The zones    *)
(* follow the United States rule in force since 2007: daylight time from   *)
(* the second Sunday of March to the first Sunday of November, switching   *)
(* at 02:00 local time.                                                    *)
(***************************************************************************)
timezones == {"utc", "America/New_York", "America/Los_Angeles"}

StdOffset(tz) ==
    CASE tz = "America/New_York" -> -300
      [] tz = "America/Los_Angeles" -> -480
      [] OTHER -> 0

HasDst(tz) == tz \in {"America/New_York", "America/Los_Angeles"}

\* the day count of the k-th Sunday of a month whose first day has the day
\* count first
SundayFrom(first, k) == first + ((3 - first) % 7) + 7 * (k - 1)

\* the day count of the k-th Sunday of month m of year y
NthSunday(y, m, k) == SundayFrom(DaysFromCivil(y, m, 1), k)

\* the UTC minute at which daylight time starts, and ends, in year y
DstStartUtc(tz, y) == NthSunday(y, 3, 2) * 1440 + 120 - StdOffset(tz)

DstEndUtc(tz, y) == NthSunday(y, 11, 1) * 1440 + 120 - (StdOffset(tz) + 60)

\* whether the UTC minute t lies in the daylight time of tz in year y
InDstOfYear(tz, t, y) == DstStartUtc(tz, y) <= t /\ t < DstEndUtc(tz, y)

\* whether daylight time is in force in tz at the UTC minute t
IsDstAtUtc(tz, t) ==
    HasDst(tz) /\ InDstOfYear(tz, t, CivilFromDays(t \div 1440)[1])

\* the UTC offset, in minutes, of tz at the UTC minute t
UtcOffsetAtUtc(tz, t) == StdOffset(tz) + (IF IsDstAtUtc(tz, t) THEN 60 ELSE 0)

\* a datetime record: civil fields with the tzinfo's offset and dst flag
Aware(f, offset, isdst) ==
    [year |-> f.year, month |-> f.month, day |-> f.day, hour |-> f.hour,
     minute |-> f.minute, second |-> f.second, microsecond |-> f.microsecond,
     utcoffset |-> offset, dst |-> isdst]

\* the offsets of tz under which the naive civil time f is a real local time
PossibleOffsets(tz, f) ==
    {o \in {StdOffset(tz), StdOffset(tz) + 60} :
        UtcOffsetAtUtc(tz, MinutesFromCivil(f) - o) = o}

\* the civil time f exists in tz (it is not inside a spring-forward gap)
LocalExists(tz, f) == PossibleOffsets(tz, f) # {}

\* the offset is_dst asks for when the civil time is not unique
OffsetFor(tz, is_dst) == IF Val(is_dst) THEN StdOffset(tz) + 60 ELSE StdOffset(tz)

\* localize, given the offsets under which f is a real local time
LocalizeAmong(tz, f, is_dst, poss) ==
    IF Cardinality(poss) = 1
    THEN Aware(f, CHOOSE o \in poss : TRUE, poss # {StdOffset(tz)})
    ELSE Aware(f, OffsetFor(tz, is_dst), OffsetFor(tz, is_dst) # StdOffset(tz))

LocalizeError(is_dst, poss) ==
    IF Cardinality(poss) = 1 \/ ~IsNone(is_dst) THEN "none"
    ELSE IF poss = {} THEN "NonExistentTimeError"
    ELSE "AmbiguousTimeError"

LocalizeResult(tz, f, is_dst, poss) ==
    IF LocalizeError(is_dst, poss) = "none"
    THEN [err |-> "none", dt |-> LocalizeAmong(tz, f, is_dst, poss)]
    ELSE [err |-> LocalizeError(is_dst, poss), dt |-> None]

\* tz.localize(naive, is_dst): [err, dt]
localize(tz, f, is_dst) == LocalizeResult(tz, f, is_dst, PossibleOffsets(tz, f))

\* the UTC fields utcf seen at offset o in tz
AtOffset(utcf, o, tz) == Aware(ShiftMinutes(utcf, o), o, o # StdOffset(tz))

\* tz.fromutc: the UTC fields utcf seen in tz
FromUtc(utcf, tz) ==
    AtOffset(utcf, UtcOffsetAtUtc(tz, MinutesFromCivil(utcf)), tz)

\* dt.astimezone(tz), normalized: the same instant in tz
astimezone(dt, tz) == FromUtc(ShiftMinutes(FieldsOf(dt), 0 - dt.utcoffset), tz)

(***************************************************************************)
(* Text: characters in code-point order, decimal digits, padding,          *)
(* str.lstrip('0') and int().                                              *)
(***************************************************************************)
Alphabet ==
    <<" ", "-", ".", "/", "0", "1", "2", "3", "4", "5", "6", "7", "8",
      "9", ":", "A", "B", "C", "D", "E", "F", "G", "H", "I", "J", "K",
      "L", "M", "N", "O", "P", "Q", "R", "S", "T", "U", "V", "W", "X",
      "Y", "Z", "_", "a", "b", "c", "d", "e", "f", "g", "h", "i", "j",
      "k", "l", "m", "n", "o", "p", "q", "r", "s", "t", "u", "v", "w",
      "x", "y", "z">>

Ord(c) == CHOOSE i \in 1..Len(Alphabet) : Alphabet[i] = c

Digits == <<"0", "1", "2", "3", "4", "5", "6", "7", "8", "9">>

IsDigit(c) == \E i \in 1..10 : Digits[i] = c

DigitVal(c) == (CHOOSE i \in 1..10 : Digits[i] = c) - 1

\* str(n) for n >= 0
RECURSIVE Decimal(_)
Decimal(n) == IF n < 10 THEN <<Digits[n + 1]>>
              ELSE Decimal(n \div 10) \o <<Digits[(n % 10) + 1]>>

\* '%0<width>d' % n
RECURSIVE ZeroPad(_, _)
ZeroPad(t, width) == IF Len(t) >= width THEN t ELSE ZeroPad(<<"0">> \o t, width)

Padded(n, width) == ZeroPad(Decimal(n), width)

\* t.lstrip('0')
RECURSIVE lstrip0(_)
lstrip0(t) == IF t # <<>> /\ t[1] = "0" THEN lstrip0(Tail(t)) ELSE t

\* int(t) for a string of decimal digits
RECURSIVE int(_)
int(t) == IF Len(t) = 1 THEN DigitVal(t[1])
          ELSE 10 * int(SubSeq(t, 1, Len(t) - 1)) + DigitVal(t[Len(t)])

\* a < b for Python strings (code-point lexicographic order)
RECURSIVE StrLess(_, _)
StrLess(a, b) ==
    IF b = <<>> THEN FALSE
    ELSE IF a = <<>> THEN TRUE
    ELSE IF a[1] # b[1] THEN Ord(a[1]) < Ord(b[1])
    ELSE StrLess(Tail(a), Tail(b))

\* s[pos:].startswith(t), pos counted from 1
StartsWithAt(s, pos, t) ==
    /\ pos + Len(t) - 1 <= Len(s)
    /\ \A i \in 1..Len(t) : s[pos + i - 1] = t[i]

RECURSIVE Concat(_)
Concat(parts) == IF parts = <<>> THEN <<>> ELSE Head(parts) \o Concat(Tail(parts))

(***************************************************************************)
(* substitutions.Substitutor: one compiled alternation of the escaped      *)
(* tokens, tried in the order of the list, applied by re.sub in one pass.  *)
(***************************************************************************)
\* the sort key taken the other way round: shortest token first
KeyLess_ascending(a, b) == Len(b) < Len(a) \/ (Len(a) = Len(b) /\ StrLess(b, a))

\* the sort key (len(key), key) of Substitutor.__init__
KeyLess(a, b) == Len(a) < Len(b) \/ (Len(a) = Len(b) /\ StrLess(a, b))

\* a sorted list with one more key put in its place, largest key first
RECURSIVE InsertKey(_, _)
InsertKey(sorted, key) ==
    IF sorted = <<>> THEN <<key>>
    ELSE IF KeyLess(Head(sorted), key) THEN <<key>> \o sorted
    ELSE <<Head(sorted)>> \o InsertKey(Tail(sorted), key)

\* sorted(substitutions, key=lambda key: (len(key), key), reverse=True)
RECURSIVE tokens_to_replace(_)
tokens_to_replace(keys) ==
    IF keys = {} THEN <<>>
    ELSE LET key == CHOOSE a \in keys : TRUE
         IN  InsertKey(tokens_to_replace(keys \ {key}), key)

\* '|'.join(re.escape(token) for token in tokens_to_replace): the list of
\* alternatives; the join of no token is the empty pattern, whose only
\* alternative is the empty string
Alternation(tokens) == IF tokens = <<>> THEN << <<>> >> ELSE tokens

\* Substitutor.__init__: the mapping and the alternation, in order
Substitutor(substitutions) ==
    [_substitutions |-> substitutions,
     _regex |-> Alternation(tokens_to_replace(DOMAIN substitutions))]

\* the alternative of the pattern that matches at pos: the first of the list,
\* from the k-th on, that matches there (0 when none does)
RECURSIVE FirstAlternative(_, _, _, _)
FirstAlternative(regex, s, pos, k) ==
    IF k > Len(regex) THEN 0
    ELSE IF StartsWithAt(s, pos, regex[k]) THEN k
    ELSE FirstAlternative(regex, s, pos, k + 1)

\* the character at pos, passed through by re.sub (nothing at the end)
Literal(s, pos) ==
    IF pos > Len(s) THEN <<>>
    ELSE <<[tok |-> FALSE, at |-> pos, text |-> <<s[pos]>>]>>

\* the scan of re.sub from pos on: the matched spans and the characters
\* between them, left to right; an empty match is followed by the character
\* it stands before
RECURSIVE Scan(_, _, _)
RECURSIVE ScanMatch(_, _, _, _)
ScanMatch(regex, s, pos, k) ==
    IF k = 0
    THEN Literal(s, pos) \o Scan(regex, s, pos + 1)
    ELSE IF regex[k] = <<>>
    THEN <<[tok |-> TRUE, at |-> pos, text |-> <<>>]>>
         \o Literal(s, pos) \o Scan(regex, s, pos + 1)
    ELSE <<[tok |-> TRUE, at |-> pos, text |-> regex[k]]>>
         \o Scan(regex, s, pos + Len(regex[k]))

Scan(regex, s, pos) ==
    IF pos > Len(s) + 1 THEN <<>>
    ELSE ScanMatch(regex, s, pos, FirstAlternative(regex, s, pos, 1))

\* the matches re.sub hands to _lookup, in order
IsMatch(seg) == seg.tok
Matches(substitutor, string) == SelectSeq(Scan(substitutor._regex, string, 1), IsMatch)

\* Substitutor._lookup raises KeyError for a match that is no key
Substitutor_raises(substitutor, string) ==
    \E i \in DOMAIN Matches(substitutor, string) :
        Matches(substitutor, string)[i].text \notin DOMAIN substitutor._substitutions

\* Substitutor._lookup on a matched span, the character itself otherwise
Replacement(substitutor, seg) ==
    IF seg.tok THEN substitutor._substitutions[seg.text] ELSE seg.text

\* the pieces of the result, one per segment of the scan
Pieces(substitutor, segs) ==
    [i \in 1..Len(segs) |-> Replacement(substitutor, segs[i])]

\* Substitutor.__call__: self._regex.sub(self._lookup, string)
Substitutor_call(substitutor, string) ==
    Concat(Pieces(substitutor, Scan(substitutor._regex, string, 1)))

\* substitutions.in_string
in_string(string, substitutions) ==
    Substitutor_call(Substitutor(substitutions), string)

(***************************************************************************)
(* strftime: the pieces _update_format_substitutor asks of the datetime.   *)
(***************************************************************************)
MonthNames ==
    <<<<"J", "a", "n", "u", "a", "r", "y">>,
      <<"F", "e", "b", "r", "u", "a", "r", "y">>,
      <<"M", "a", "r", "c", "h">>,
      <<"A", "p", "r", "i", "l">>,
      <<"M", "a", "y">>,
      <<"J", "u", "n", "e">>,
      <<"J", "u", "l", "y">>,
      <<"A", "u", "g", "u", "s", "t">>,
      <<"S", "e", "p", "t", "e", "m", "b", "e", "r">>,
      <<"O", "c", "t", "o", "b", "e", "r">>,
      <<"N", "o", "v", "e", "m", "b", "e", "r">>,
      <<"D", "e", "c", "e", "m", "b", "e", "r">>>>

WeekdayNames ==
    <<<<"M", "o", "n", "d", "a", "y">>,
      <<"T", "u", "e", "s", "d", "a", "y">>,
      <<"W", "e", "d", "n", "e", "s", "d", "a", "y">>,
      <<"T", "h", "u", "r", "s", "d", "a", "y">>,
      <<"F", "r", "i", "d", "a", "y">>,
      <<"S", "a", "t", "u", "r", "d", "a", "y">>,
      <<"S", "u", "n", "d", "a", "y">>>>

\* the key of a registry entry as text, and the registry key a text names
TzText(tz) ==
    CASE tz = "utc" -> <<"u", "t", "c">>
      [] tz = "America/New_York" ->
            <<"A", "m", "e", "r", "i", "c", "a", "/", "N", "e", "w", "_", "Y", "o", "r", "k">>
      [] tz = "America/Los_Angeles" ->
            <<"A", "m", "e", "r", "i", "c", "a", "/", "L", "o", "s", "_", "A", "n", "g", "e", "l", "e", "s">>
      [] OTHER -> <<"?">>

TzKey(text) ==
    IF \E tz \in timezones : TzText(tz) = text
    THEN CHOOSE tz \in timezones : TzText(tz) = text
    ELSE "unregistered"

strftime_Y(dt) == Padded(dt.year, 4)

strftime_y(dt) == Padded(dt.year % 100, 2)

strftime_m(dt) == Padded(dt.month, 2)

strftime_d(dt) == Padded(dt.day, 2)

strftime_H(dt) == Padded(dt.hour, 2)

\* the hour on the 12-hour clock: 12, 1, ..., 11
strftime_I(dt) == Padded(IF dt.hour % 12 = 0 THEN 12 ELSE dt.hour % 12, 2)

strftime_M(dt) == Padded(dt.minute, 2)

strftime_S(dt) == Padded(dt.second, 2)

strftime_f(dt) == Padded(dt.microsecond, 6)

strftime_B(dt) == MonthNames[dt.month]

strftime_b(dt) == SubSeq(MonthNames[dt.month], 1, 3)

strftime_A(dt) == WeekdayNames[IsoWeekday(dt.year, dt.month, dt.day)]

strftime_a(dt) == SubSeq(strftime_A(dt), 1, 3)

\* +HHMM or -HHMM
strftime_z(dt) ==
    LET a == IF dt.utcoffset < 0 THEN 0 - dt.utcoffset ELSE dt.utcoffset
    IN  <<IF dt.utcoffset < 0 THEN "-" ELSE "+">>
        \o Padded(a \div 60, 2) \o Padded(a % 60, 2)

(***************************************************************************)
(* when.When                                                               *)
(***************************************************************************)
\* the attributes __init__ sets, given the localized datetime
InitAttributes(dt, timezone) ==
    [_datetime |-> dt,
     _utc |-> astimezone(dt, "utc"),
     _timezone |-> timezone,
     _format_substitutor |-> None,
     _format_substitor |-> "unset",
     _when_utc |-> None]

InitLocalized(loc, timezone) ==
    IF loc.err # "none" THEN [err |-> loc.err, when |-> None]
    ELSE [err |-> "none", when |-> InitAttributes(loc.dt, timezone)]

InitNaive(naive, timezone, dst_if_ambiguous) ==
    IF ~ValidFields(naive) THEN [err |-> "ValueError", when |-> None]
    ELSE InitLocalized(localize(timezone, naive, dst_if_ambiguous), timezone)

\* When.__init__ on its keyword arguments: [err, when]
When_init(kw) ==
    IF IsNone(kw.timezone) \/ Val(kw.timezone) \notin timezones
    THEN [err |-> "ValueError", when |-> None]
    ELSE IF \E a \in {kw.year, kw.month, kw.day, kw.hour, kw.minute,
                      kw.second, kw.microsecond} : IsNone(a)
    THEN [err |-> "TypeError", when |-> None]
    ELSE InitNaive(Civil(Val(kw.year), Val(kw.month), Val(kw.day),
                         Val(kw.hour), Val(kw.minute), Val(kw.second),
                         Val(kw.microsecond)),
                   Val(kw.timezone), kw.dst_if_ambiguous)

\* the keyword arguments of a direct call When(y, m, d, h, mi, s, us, tz, dst)
Kwargs(f, tz, dst) ==
    [year |-> Some(f.year), month |-> Some(f.month), day |-> Some(f.day),
     hour |-> Some(f.hour), minute |-> Some(f.minute),
     second |-> Some(f.second), microsecond |-> Some(f.microsecond),
     timezone |-> Some(tz), dst_if_ambiguous |-> dst]

\* When.from_datetime(datetime, timezone) for a naive datetime
from_datetime(f, tz) == When_init(Kwargs(f, tz, None))

\* a faulty setter: it keeps the displayed fields and reads them as a time of
\* the new zone (datetime.replace(tzinfo=...)), which moves the instant
timezone_setter_reinterprets(self, timezone) ==
    [self EXCEPT !._datetime = Aware(FieldsOf(self._datetime), StdOffset(timezone), FALSE),
                 !._utc = astimezone(Aware(FieldsOf(self._datetime),
                                           StdOffset(timezone), FALSE), "utc"),
                 !._timezone = timezone,
                 !._format_substitor = "None"]

\* a faulty setter: it shifts by the zone's standard offset whatever the date
timezone_setter_ignores_dst(self, timezone) ==
    [self EXCEPT !._datetime = AtOffset(FieldsOf(self._utc), StdOffset(timezone), timezone),
                 !._timezone = timezone,
                 !._format_substitor = "None"]

\* the timezone setter: the object after self.timezone = timezone
timezone_setter(self, timezone) ==
    [self EXCEPT !._datetime = astimezone(self._utc, timezone),
                 !._timezone = timezone,
                 !._format_substitor = "None"]

\* When.inflection
inflection(self) ==
    IF self._datetime.day \in {1, 21, 31} THEN <<"s", "t">>
    ELSE IF self._datetime.day \in {2, 22} THEN <<"n", "d">>
    ELSE IF self._datetime.day \in {3, 23} THEN <<"r", "d">>
    ELSE <<"t", "h">>

\* the meridian marker in the spelling am/pm of ifam/ifpm
Meridian(self, ifam, ifpm) == IF self._datetime.hour < 12 THEN ifam ELSE ifpm

\* the mapping built by When._update_format_substitutor
format_substitutions(self) ==
    LET dt == self._datetime
        z  == strftime_z(dt)
    IN  (<<"1", "7", "7", "6">> :> strftime_Y(dt))
     @@ (<<"0", "1", "2", "3", "4", "5">> :> strftime_f(dt))
     @@ (<<"1", "2", "3", "4", "5">> :> lstrip0(strftime_f(dt)))
     @@ (<<"0", "1", "2">> :> SubSeq(strftime_f(dt), 1, 3))
     @@ (<<"7", "6">> :> strftime_y(dt))
     @@ (<<"1", "3">> :> strftime_H(dt))
     @@ (<<"1", "2">> :> lstrip0(SubSeq(strftime_f(dt), 1, 3)))
     @@ (<<"-", "0", "4", ":", "0", "0">> :>
            SubSeq(z, 1, Len(z) - 2) \o <<":">> \o SubSeq(z, Len(z) - 1, Len(z)))
     @@ (<<"-", "0", "4", "0", "0">> :> z)
     @@ (<<"J", "u", "l", "y">> :> strftime_B(dt))
     @@ (<<"J", "u", "l">> :> strftime_b(dt))
     @@ (<<"0", "1">> :> strftime_I(dt))
     @@ (<<"0", "2">> :> strftime_M(dt))
     @@ (<<"0", "3">> :> strftime_S(dt))
     @@ (<<"0", "4">> :> strftime_d(dt))
     @@ (<<"0", "7">> :> strftime_m(dt))
     @@ (<<"1">> :> lstrip0(strftime_I(dt)))
     @@ (<<"2">> :> lstrip0(strftime_M(dt)))
     @@ (<<"3">> :> lstrip0(strftime_S(dt)))
     @@ (<<"4">> :> lstrip0(strftime_d(dt)))
     @@ (<<"7">> :> lstrip0(strftime_m(dt)))
     @@ (<<"A", "m", "e", "r", "i", "c", "a", "/", "N", "e", "w", "_", "Y", "o", "r", "k">>
            :> TzText(self._timezone))
     @@ (<<"T", "h", "u", "r", "s", "d", "a", "y">> :> strftime_A(dt))
     @@ (<<"T", "h", "u">> :> strftime_a(dt))
     @@ (<<"t", "h">> :> inflection(self))
     @@ (<<"P", "M">> :> Meridian(self, <<"A", "M">>, <<"P", "M">>))
     @@ (<<"P", ".", "M", ".">> :>
            Meridian(self, <<"A", ".", "M", ".">>, <<"P", ".", "M", ".">>))
     @@ (<<"p", "m">> :> Meridian(self, <<"a", "m">>, <<"p", "m">>))
     @@ (<<"p", ".", "m", ".">> :>
            Meridian(self, <<"a", ".", "m", ".">>, <<"p", ".", "m", ".">>))

\* When._update_format_substitutor: the object with its engine rebuilt
_update_format_substitutor(self) ==
    [self EXCEPT !._format_substitutor =
                     Some(Substitutor(format_substitutions(self)))]

\* the format_substitutor property: the object after the access (the engine
\* is built only when none is cached)
format_substitutor(self) ==
    IF IsNone(self._format_substitutor)
    THEN _update_format_substitutor(self)
    ELSE self

\* the engine applied: [self, result]
Formatted(after, specifier) ==
    [self |-> after,
     result |-> Substitutor_call(Val(after._format_substitutor), specifier)]

\* When.__format__: [self, result]
__format__(self, specifier) == Formatted(format_substitutor(self), specifier)

\* the utc property: the object after the access, its UTC When memoized
utc(self) ==
    IF IsNone(self._when_utc)
    THEN [self EXCEPT !._when_utc =
                          Some(from_datetime(FieldsOf(self._utc), "utc").when)]
    ELSE self

\* the attributes year .. microsecond of an object with those fields
AttributesTuple(u) ==
    <<u.year, u.month, u.day, u.hour, u.minute, u.second, u.microsecond>>

\* a faulty tuple: the attributes of the view instead of those of self.utc
view_attributes_tuple(self) == AttributesTuple(self._datetime)

\* _immutable_attributes_tuple (also _comparison_tuple), read off self.utc
_immutable_attributes_tuple(self) ==
    AttributesTuple(Val(utc(self)._when_utc)._datetime)

\* a < b for tuples of integers of one length
RECURSIVE TupleLess(_, _)
TupleLess(a, b) ==
    IF a = <<>> THEN FALSE
    ELSE IF a[1] # b[1] THEN a[1] < b[1]
    ELSE TupleLess(Tail(a), Tail(b))

__eq__(self, other) ==
    _immutable_attributes_tuple(self) = _immutable_attributes_tuple(other)

__lt__(self, other) ==
    TupleLess(_immutable_attributes_tuple(self), _immutable_attributes_tuple(other))

__le__(self, other) ==
    ~TupleLess(_immutable_attributes_tuple(other), _immutable_attributes_tuple(self))

__gt__(self, other) ==
    TupleLess(_immutable_attributes_tuple(other), _immutable_attributes_tuple(self))

__ge__(self, other) ==
    ~TupleLess(_immutable_attributes_tuple(self), _immutable_attributes_tuple(other))

\* hash() of a tuple of integers: a value computed from the items in order
RECURSIVE TupleHash(_, _)
TupleHash(items, acc) ==
    IF items = <<>> THEN acc
    ELSE TupleHash(Tail(items), (acc * 31 + Head(items)) % 65536)

\* a faulty hash: of the displayed attributes
view_hash(self) == TupleHash(AttributesTuple(self._datetime), 7)

\* When.__hash__
__hash__(self) == TupleHash(_immutable_attributes_tuple(self), 7)

\* When.dst: tm_isdst of the view datetime is 1 or 0, the view datetime being
\* aware (the ValueError branch needs a naive one)
When_dst(self) == self._datetime.dst

\* the anchor's fields with the view timezone and flag
_init_tuple_utc_fields(self) ==
    <<self._utc.year, self._utc.month, self._utc.day, self._utc.hour,
      self._utc.minute, self._utc.second, self._utc.microsecond,
      self._timezone, When_dst(self)>>

\* When._init_tuple: the displayed fields, the view timezone, the dst flag
_init_tuple(self) ==
    <<self._datetime.year, self._datetime.month, self._datetime.day,
      self._datetime.hour, self._datetime.minute, self._datetime.second,
      self._datetime.microsecond, self._timezone, When_dst(self)>>

\* When.__reduce__: the callable and its arguments
__reduce__(self) == [callable |-> "When", args |-> _init_tuple(self)]

\* the keyword arguments a positional call When(*args) binds
Positional(args) ==
    [year |-> Some(args[1]), month |-> Some(args[2]), day |-> Some(args[3]),
     hour |-> Some(args[4]), minute |-> Some(args[5]), second |-> Some(args[6]),
     microsecond |-> Some(args[7]), timezone |-> Some(args[8]),
     dst_if_ambiguous |-> Some(args[9])]

\* what pickle.loads does with the reduced value: callable(*args)
Reconstructed(reduced) == When_init(Positional(reduced.args))

\* the attributes with a property setter, and those with a getter only
SetterFields ==
    {"year", "month", "day", "hour", "minute", "second", "millisecond",
     "microsecond"}

GetterOnlyFields == {"weekday", "day_of_year"}

\* an assignment that writes the value into the view datetime
field_setter_replaces(self, field, value) ==
    [err |-> "none",
     self |-> IF field \in DOMAIN self._datetime
              THEN [self EXCEPT !._datetime = [@ EXCEPT ![field] = value]]
              ELSE self]

\* self.<field> = value: every setter raises NotImplementedError, and a
\* property without a setter raises AttributeError
field_setter(self, field, value) ==
    [err |-> IF field \in SetterFields THEN "NotImplementedError"
             ELSE "AttributeError",
     self |-> self]

(***************************************************************************)
(* The inputs of the model.                                                *)
(***************************************************************************)
NumSamples == 8

NumOthers == 1

NumSpecifiers == 2

NumTemplates == 3

Least(a, b) == IF a < b THEN a ELSE b

\* naive civil times: one instant as seen from three zones, a time inside
\* the spring-forward gap, one inside the fall-back overlap, midnight on New
\* Year's Day, a time just after noon, and the doctest's Earth Day
Samples ==
    <<Civil(2015, 4, 22, 5, 0, 0, 0),
      Civil(2015, 4, 22, 2, 0, 0, 0),
      Civil(2015, 4, 22, 9, 0, 0, 0),
      Civil(2015, 3, 8, 2, 30, 0, 0),
      Civil(2015, 11, 1, 1, 30, 0, 0),
      Civil(2015, 1, 1, 0, 0, 0, 0),
      Civil(2015, 4, 22, 12, 5, 9, 12345),
      Civil(2015, 4, 22, 5, 30, 59, 23),
      Civil(2016, 2, 29, 23, 59, 59, 999999)>>

SampleSet == {Samples[i] : i \in 1..Least(NumSamples, Len(Samples))}

OtherSet == {Samples[i] : i \in 1..Least(NumOthers, Len(Samples))}

DstFlags == {None, Some(TRUE), Some(FALSE)}

\* short format specifiers: a 24-hour time with its UTC offset, a day with its
\* ordinal and a 12-hour time with its meridian, a month and day
Specifiers ==
    <<<<"1", "3", ":", "0", "2", " ", "-", "0", "4", ":", "0", "0">>,
      <<"4", "t", "h", " ", "1", "p", "m">>,
      <<"J", "u", "l", " ", "0", "4">>>>

SpecifierSet == {Specifiers[i] : i \in 1..Least(NumSpecifiers, Len(Specifiers))}

\* reference templates: the ISO template of format_as_iso, a 12-hour template
\* with a meridian marker, a 24-hour template, and an unpadded one
Templates ==
    <<<<"1", "7", "7", "6", "-", "0", "7", "-", "0", "4", "T", "1", "3", ":", "0", "2",
        ":", "0", "3", ".", "0", "1", "2", "3", "4", "5", "-", "0", "4", ":", "0", "0">>,
      <<"1", "7", "7", "6", "-", "0", "7", "-", "0", "4", " ", "0", "1", ":", "0", "2",
        ":", "0", "3", ".", "0", "1", "2", "3", "4", "5", " ", "P", "M", " ", "A", "m",
        "e", "r", "i", "c", "a", "/", "N", "e", "w", "_", "Y", "o", "r", "k">>,
      <<"1", "7", "7", "6", "-", "0", "7", "-", "0", "4", " ", "1", "3", ":", "0", "2",
        ":", "0", "3", ".", "0", "1", "2", "3", "4", "5", " ", "A", "m", "e", "r", "i",
        "c", "a", "/", "N", "e", "w", "_", "Y", "o", "r", "k">>,
      <<"7", "/", "4", "/", "1", "7", "7", "6", " ", "1", ":", "2", ":", "3", ".", "1",
        "2", "3", "4", "5", " ", "p", "m", " ", "A", "m", "e", "r", "i", "c", "a", "/",
        "N", "e", "w", "_", "Y", "o", "r", "k">>>>

TemplateSet == {Templates[i] : i \in 1..Least(NumTemplates, Len(Templates))}

\* the Whens a client can build from a set of civil times
Constructed(civil, flags) ==
    {r.when : r \in {c \in {When_init(Kwargs(f, tz, dst)) :
                               f \in civil, tz \in timezones, dst \in flags} :
                       c.err = "none"}}

\* the other operand of a comparison: a When seen through any timezone
Others == {timezone_setter(o, z) : o \in Constructed(OtherSet, {None}), z \in timezones}

(***************************************************************************)
(* The life of one When: the state after construction, then any sequence   *)
(* of timezone assignments, format calls, utc accesses, comparisons and    *)
(* hash calls.                                                             *)
(***************************************************************************)
\* the state once When(...) has returned r for the civil time f in timezone tz
Built(r, f, tz) ==
    /\ r.err = "none"
    /\ w = r.when
    /\ orig = [fields |-> f, timezone |-> tz]

Init ==
    /\ \E f \in SampleSet, tz \in timezones, dst \in DstFlags :
          Built(When_init(Kwargs(f, tz, dst)), f, tz)
    /\ out = [op |-> "init"]
    /\ sub = None

\* w.timezone = timezone; a name the registry lacks raises KeyError
SetTimezone(timezone) ==
    /\ w' = IF timezone \in timezones THEN timezone_setter(w, timezone) ELSE w
    /\ out' = [op |-> "set_timezone", was |-> w._timezone,
               err |-> IF timezone \in timezones THEN "none" ELSE "KeyError"]
    /\ UNCHANGED <<orig, sub>>

\* format(w, specifier)
Format(specifier) ==
    LET r == __format__(w, specifier)
    IN  /\ w' = r.self
        /\ out' = [op |-> "format", specifier |-> specifier, result |-> r.result]
        /\ UNCHANGED <<orig, sub>>

\* w.utc
Utc ==
    /\ w' = utc(w)
    /\ out' = [op |-> "utc", result |-> AttributesTuple(Val(w'._when_utc)._datetime)]
    /\ UNCHANGED <<orig, sub>>

\* hash(w)
Hash ==
    /\ w' = utc(w)
    /\ out' = [op |-> "hash", result |-> __hash__(w)]
    /\ UNCHANGED <<orig, sub>>

\* w == other, w < other, w <= other, w > other, w >= other
Compare(other) ==
    /\ w' = utc(w)
    /\ out' = [op |-> "compare",
               other |-> [_utc |-> FieldsOf(other._utc), _timezone |-> other._timezone],
               eq |-> __eq__(w, other), lt |-> __lt__(w, other),
               le |-> __le__(w, other), gt |-> __gt__(w, other),
               ge |-> __ge__(w, other)]
    /\ UNCHANGED <<orig, sub>>

\* hash(w) and hash(other), as a set or a dict takes them
HashPair(other) ==
    /\ w' = utc(w)
    /\ out' = [op |-> "hash_pair",
               other |-> [_utc |-> FieldsOf(other._utc), _timezone |-> other._timezone],
               self_hash |-> __hash__(w), other_hash |-> __hash__(other)]
    /\ UNCHANGED <<orig, sub>>

\* what pickling and unpickling w leaves behind
Unpickled(reduced, made) ==
    [op |-> "reduce", args |-> reduced.args, err |-> made.err, copy |-> made.when]

\* pickle.loads(pickle.dumps(w)): w.__reduce__(), then the callable on the
\* arguments
Reduce ==
    /\ w' = w
    /\ out' = Unpickled(__reduce__(w), Reconstructed(__reduce__(w)))
    /\ UNCHANGED <<orig, sub>>

\* w.<field> = value
SetField(field, value) ==
    /\ w' = field_setter(w, field, value).self
    /\ out' = [op |-> "set_field", field |-> field,
               err |-> field_setter(w, field, value).err]
    /\ UNCHANGED <<orig, sub>>

Next ==
    \/ \E timezone \in timezones \cup {"Mars/Phobos"} : SetTimezone(timezone)
    \/ \E specifier \in SpecifierSet : Format(specifier)
    \/ Utc
    \/ Hash
    \/ \E other \in Others : Compare(other)
    \/ \E other \in Others : HashPair(other)

Spec == Init /\ [][Next]_vars

\* the life of one When under timezone assignments, pickling and assignments
\* to its fields
NextReduce ==
    \/ \E timezone \in timezones \cup {"Mars/Phobos"} : SetTimezone(timezone)
    \/ Reduce
    \/ \E field \in SetterFields \cup GetterOnlyFields : SetField(field, 1)

SpecReduce == Init /\ [][NextReduce]_vars

(***************************************************************************)
(* Properties of the When object.                                          *)
(***************************************************************************)
\* the comparison tuple of the stored UTC anchor of a When
Anchor(when) == AttributesTuple(when._utc)

\* C1: the UTC anchor stored by the constructor is the same after every
\* timezone assignment, format call, utc access, comparison and hash call
C1_AnchorNeverChanges == [][Anchor(w') = Anchor(w)]_vars

\* a When re-viewed in another zone, formatted, and with its UTC view taken
C1_Witness ==
    /\ w._timezone # orig.timezone
    /\ ~IsNone(w._format_substitutor)
    /\ ~IsNone(w._when_utc)
    /\ out.op = "hash"

\* C2: format(specifier) returns the specifier with its tokens replaced by the
\* field values of the current view timezone, also after the view was changed
\* since an earlier format call
C2_FormatShowsCurrentView ==
    out.op = "format" =>
        out.result = in_string(out.specifier, format_substitutions(w))

\* C3: ==, <, <=, >, >= return the comparison of the UTC-anchored tuples
\* whatever the view timezones, so one instant seen in two zones is equal
C3_ComparesUtcAnchors ==
    out.op = "compare" =>
        /\ out.eq = (Anchor(w) = AttributesTuple(out.other._utc))
        /\ out.lt = TupleLess(Anchor(w), AttributesTuple(out.other._utc))
        /\ out.gt = TupleLess(AttributesTuple(out.other._utc), Anchor(w))
        /\ out.le = (out.lt \/ out.eq)
        /\ out.ge = (out.gt \/ out.eq)

\* one instant compared equal across two different views, after w's view
\* was reassigned
C3_Witness ==
    /\ out.op = "compare"
    /\ out.eq
    /\ out.other._timezone # w._timezone
    /\ w._timezone # orig.timezone

\* C4: Whens with equal UTC-anchored fields have equal hashes whatever their
\* views, and no step (a timezone assignment among them) changes hash(w)
C4_HashFollowsAnchor ==
    [][/\ __hash__(w') = __hash__(w)
       /\ (out'.op = "hash_pair" /\ Anchor(w') = AttributesTuple(out'.other._utc)
              => out'.self_hash = out'.other_hash)
       /\ (out'.op = "hash" => out'.result = __hash__(w))]_vars

\* the hashes of one instant taken through two different views
C4_Witness ==
    /\ out.op = "hash_pair"
    /\ Anchor(w) = AttributesTuple(out.other._utc)
    /\ out.other._timezone # w._timezone
    /\ w._timezone # orig.timezone

\* C5: whenever the view is back in the timezone of construction, the
\* displayed fields are the civil fields of construction (for civil times
\* that exist in that timezone)
C5_ViewRoundTrip ==
    (w._timezone = orig.timezone /\ LocalExists(orig.timezone, orig.fields))
        => FieldsOf(w._datetime) = orig.fields

\* the view came back to the timezone of construction from another one
C5_Witness ==
    /\ out.op = "set_timezone"
    /\ out.err = "none"
    /\ out.was # w._timezone
    /\ w._timezone = orig.timezone
    /\ HasDst(orig.timezone)

\* C6: after timezone = z the displayed fields are the UTC anchor moved by
\* the UTC offset of z at that instant; 2015-04-22 05:00 in New York shows
\* 02:00 on 2015-04-22 in Los Angeles
C6_SetterConverts ==
    (out.op = "set_timezone" /\ out.err = "none") =>
        /\ w._datetime.utcoffset
              = UtcOffsetAtUtc(w._timezone, MinutesFromCivil(w._utc))
        /\ MinutesFromCivil(w._datetime) - MinutesFromCivil(w._utc)
              = w._datetime.utcoffset
        /\ w._datetime.second = w._utc.second
        /\ w._datetime.microsecond = w._utc.microsecond
        /\ (/\ orig = [fields |-> Civil(2015, 4, 22, 5, 0, 0, 0),
                       timezone |-> "America/New_York"]
            /\ w._timezone = "America/Los_Angeles")
              => (/\ w._datetime.hour = 2
                  /\ w._datetime.day = 22
                  /\ w._datetime.month = 4
                  /\ w._datetime.year = 2015)

\* Earth Day 05:00 in New York, re-viewed in Los Angeles
C6_Witness ==
    /\ out.op = "set_timezone"
    /\ out.err = "none"
    /\ orig = [fields |-> Civil(2015, 4, 22, 5, 0, 0, 0),
               timezone |-> "America/New_York"]
    /\ w._timezone = "America/Los_Angeles"

(***************************************************************************)
(* The Substitutor on its own: a mapping and a subject are drawn, then the *)
(* Substitutor built from the mapping is called on the subject.            *)
(***************************************************************************)
MaxTokens == 3

\* tokens that overlap as prefixes of one another, the empty token, two words
TokenPool ==
    {<<>>, <<"0">>, <<"1", "2">>, <<"0", "1", "2">>, <<"1">>, <<"7">>,
     <<"7", "6">>, <<"1", "7", "7", "6">>, <<"f", "o", "o">>, <<"b", "a", "r">>}

\* replacement strings, themselves tokens of the pool
ValuePool == {<<"b", "a", "r">>, <<"f", "o", "o">>, <<"1", "2">>}

Subjects ==
    {<<>>, <<"f", "o", "o", " ", "b", "a", "r">>, <<"f", "o", "o", "b", "a", "r">>,
     <<"0", "1", "2", "0", " ", "1", "2">>, <<"1", "7", "7", "6">>,
     <<"a", "0", "1", "2">>}

\* the dicts a caller can pass: at most MaxTokens keys
Mappings ==
    UNION {[keys -> ValuePool] :
              keys \in {k \in SUBSET TokenPool : Cardinality(k) <= MaxTokens}}

InitSub ==
    /\ w = None
    /\ orig = None
    /\ out = [op |-> "init"]
    /\ \E substitutions \in Mappings, string \in Subjects :
          sub = [op |-> "new", substitutions |-> substitutions, string |-> string,
                 calls |-> <<>>, err |-> "none", result |-> <<>>]

\* Substitutor(substitutions)(string): the matches handed to _lookup and
\* the returned string, or the KeyError of _lookup
Call ==
    /\ ~IsNone(sub)
    /\ sub.op = "new"
    /\ sub' = IF Substitutor_raises(Substitutor(sub.substitutions), sub.string)
              THEN [sub EXCEPT !.op = "call", !.err = "KeyError"]
              ELSE [sub EXCEPT !.op = "call",
                       !.calls = Matches(Substitutor(sub.substitutions), sub.string),
                       !.result = Substitutor_call(Substitutor(sub.substitutions),
                                                   sub.string)]
    /\ UNCHANGED <<w, orig, out>>

\* substitutions.in_string(string, substitutions)
InString ==
    /\ ~IsNone(sub)
    /\ sub.op = "new"
    /\ sub' = IF Substitutor_raises(Substitutor(sub.substitutions), sub.string)
              THEN [sub EXCEPT !.op = "in_string", !.err = "KeyError"]
              ELSE [sub EXCEPT !.op = "in_string",
                       !.calls = Matches(Substitutor(sub.substitutions), sub.string),
                       !.result = in_string(sub.string, sub.substitutions)]
    /\ UNCHANGED <<w, orig, out>>

NextSub == Call \/ InString

SpecSub == InitSub /\ [][NextSub]_vars

(***************************************************************************)
(* Properties of the Substitutor.                                          *)
(***************************************************************************)
\* the tokens of the mapping that match the subject at a position
MatchingAt(p) == {t \in DOMAIN sub.substitutions : StartsWithAt(sub.string, p, t)}

\* C7: at each position where the Substitutor replaces something, the token
\* replaced is a token of the set that matches there and no token of the set
\* matching there is longer; with '0' and '012' (or '12' and '012') in the set
\* the span '012' goes to '012', and '1776' is taken whole when it is a token
C7_LongestMatchFirst ==
    (~IsNone(sub) /\ sub.op # "new" /\ sub.err = "none") =>
        /\ \A i \in DOMAIN sub.calls :
              /\ sub.calls[i].text \in MatchingAt(sub.calls[i].at)
              /\ \A t \in MatchingAt(sub.calls[i].at) :
                    Len(t) <= Len(sub.calls[i].text)
        /\ (/\ <<"0", "1", "2">> \in DOMAIN sub.substitutions
            /\ sub.string = <<"0", "1", "2", "0", " ", "1", "2">>)
              => sub.calls[1] = [tok |-> TRUE, at |-> 1, text |-> <<"0", "1", "2">>]
        /\ (/\ <<"1", "7", "7", "6">> \in DOMAIN sub.substitutions
            /\ sub.string = <<"1", "7", "7", "6">>)
              => sub.calls[1] = [tok |-> TRUE, at |-> 1, text |-> <<"1", "7", "7", "6">>]

\* a span replaced by a token while a shorter token of the set matched at the
\* same position
C7_Witness ==
    /\ ~IsNone(sub)
    /\ sub.op = "call"
    /\ sub.err = "none"
    /\ \E i \in DOMAIN sub.calls :
          \E t \in MatchingAt(sub.calls[i].at) :
              /\ t # <<>>
              /\ Len(t) < Len(sub.calls[i].text)

\* the subject with the span of each recorded match replaced by its mapped
\* string and the characters between the spans kept, from the i-th match and
\* the position pos on
RECURSIVE Rebuilt(_, _)
Rebuilt(i, pos) ==
    IF i > Len(sub.calls) THEN SubSeq(sub.string, pos, Len(sub.string))
    ELSE SubSeq(sub.string, pos, sub.calls[i].at - 1)
         \o sub.substitutions[sub.calls[i].text]
         \o Rebuilt(i + 1, sub.calls[i].at + Len(sub.calls[i].text))

\* the position lies strictly inside the span of a recorded match
Inside(p) ==
    \E i \in DOMAIN sub.calls :
        sub.calls[i].at < p /\ p < sub.calls[i].at + Len(sub.calls[i].text)

\* one left-to-right pass: the matches are disjoint and in order, a match
\* starts wherever a token matches outside the earlier spans, and the result
\* is the subject with each span replaced once by its mapped string, nothing
\* else changed and replacement text not scanned again
SinglePass ==
    /\ sub.err = "none"
    /\ \A i \in DOMAIN sub.calls :
          i < Len(sub.calls) =>
              /\ sub.calls[i].at + Len(sub.calls[i].text) <= sub.calls[i + 1].at
              /\ sub.calls[i].at < sub.calls[i + 1].at
    /\ \A p \in 1..(Len(sub.string) + 1) :
          (MatchingAt(p) # {} /\ ~Inside(p)) =>
              \E i \in DOMAIN sub.calls : sub.calls[i].at = p
    /\ sub.result = Rebuilt(1, 1)
    /\ (/\ sub.substitutions = (<<"f", "o", "o">> :> <<"b", "a", "r">>
                                 @@ <<"b", "a", "r">> :> <<"f", "o", "o">>)
        /\ sub.string = <<"f", "o", "o", " ", "b", "a", "r">>)
          => sub.result = <<"b", "a", "r", " ", "f", "o", "o">>

\* C8: Substitutor(subs)(s) returns s scanned once left to right, each
\* matched span replaced once by its mapped string, replacement text not
\* scanned again, every other character unchanged and in order
C8_SinglePassSubstitution ==
    (~IsNone(sub) /\ sub.op # "new") => SinglePass

\* the same for the mappings that have at least one token
C8_SinglePassWithTokens ==
    (~IsNone(sub) /\ sub.op # "new" /\ DOMAIN sub.substitutions # {}) => SinglePass

\* the two words swapped in one call
C8_Witness ==
    /\ ~IsNone(sub)
    /\ sub.op = "call"
    /\ sub.substitutions = (<<"f", "o", "o">> :> <<"b", "a", "r">>
                            @@ <<"b", "a", "r">> :> <<"f", "o", "o">>)
    /\ sub.string = <<"f", "o", "o", " ", "b", "a", "r">>
    /\ sub.result = <<"b", "a", "r", " ", "f", "o", "o">>

(***************************************************************************)
(* The pattern When.from_string compiles.  A pattern is the sequence of    *)
(* its elements: the characters the specifier keeps, and one element per   *)
(* named group put in by substitutions_for_regex (written (?P<name>)).     *)
(***************************************************************************)
\* substitutions_for_regex: token -> the named group that replaces it
substitutions_for_regex ==
    (<<"1", "7", "7", "6">> :> <<"(?P<_1776>)">>)
     @@ (<<"7", "6">> :> <<"(?P<_76>)">>)
     @@ (<<"J", "u", "l", "y">> :> <<"(?P<_July>)">>)
     @@ (<<"J", "u", "l">> :> <<"(?P<_Jul>)">>)
     @@ (<<"A", "m", "e", "r", "i", "c", "a", "/", "N", "e", "w", "_", "Y", "o", "r", "k">> :> <<"(?P<timezone>)">>)
     @@ (<<"0", "1", "2", "3", "4", "5">> :> <<"(?P<_012345>)">>)
     @@ (<<"1", "2", "3", "4", "5">> :> <<"(?P<_12345>)">>)
     @@ (<<"0", "1", "2">> :> <<"(?P<_012>)">>)
     @@ (<<"1", "2">> :> <<"(?P<_12>)">>)
     @@ (<<"1", "3">> :> <<"(?P<_13>)">>)
     @@ (<<"0", "7">> :> <<"(?P<_07>)">>)
     @@ (<<"0", "4">> :> <<"(?P<_04>)">>)
     @@ (<<"0", "3">> :> <<"(?P<_03>)">>)
     @@ (<<"0", "2">> :> <<"(?P<_02>)">>)
     @@ (<<"0", "1">> :> <<"(?P<_01>)">>)
     @@ (<<"7">> :> <<"(?P<_7>)">>)
     @@ (<<"4">> :> <<"(?P<_4>)">>)
     @@ (<<"3">> :> <<"(?P<_3>)">>)
     @@ (<<"2">> :> <<"(?P<_2>)">>)
     @@ (<<"1">> :> <<"(?P<_1>)">>)
     @@ (<<"p", "m">> :> <<"(?P<_pm>)">>)
     @@ (<<"p", ".", "m", ".">> :> <<"(?P<_p_m_>)">>)
     @@ (<<"P", "M">> :> <<"(?P<_PM>)">>)
     @@ (<<"P", ".", "M", ".">> :> <<"(?P<_P_M_>)">>)

\* what each named group matches: \d{least,most} taken greedily, or a list of
\* alternatives in the order of the pattern; the timezone group is Z|z|[a-zA-Z_/]+
Groups ==
    ("(?P<_1776>)" :> [name |-> "_1776", kind |-> "digits", least |-> 1, most |-> 4,
            alternatives |-> <<>>])
     @@ ("(?P<_76>)" :> [name |-> "_76", kind |-> "digits", least |-> 2, most |-> 2,
            alternatives |-> <<>>])
     @@ ("(?P<_July>)" :> [name |-> "_July", kind |-> "names", least |-> 0, most |-> 0,
            alternatives |-> <<<<"J", "a", "n", "u", "a", "r", "y">>, <<"F", "e", "b", "r", "u", "a", "r", "y">>, <<"M", "a", "r", "c", "h">>, <<"A", "p", "r", "i", "l">>, <<"M", "a", "y">>, <<"J", "u", "n", "e">>, <<"J", "u", "l", "y">>, <<"A", "u", "g", "u", "s", "t">>, <<"S", "e", "p", "t", "e", "m", "b", "e", "r">>, <<"O", "c", "t", "o", "b", "e", "r">>, <<"N", "o", "v", "e", "m", "b", "e", "r">>, <<"D", "e", "c", "e", "m", "b", "e", "r">>>>])
     @@ ("(?P<_Jul>)" :> [name |-> "_Jul", kind |-> "names", least |-> 0, most |-> 0,
            alternatives |-> <<<<"J", "a", "n">>, <<"F", "e", "b">>, <<"M", "a", "r">>, <<"A", "p", "r">>, <<"M", "a", "y">>, <<"J", "u", "n">>, <<"J", "u", "l">>, <<"A", "u", "g">>, <<"S", "e", "p">>, <<"O", "c", "t">>, <<"N", "o", "v">>, <<"D", "e", "c">>>>])
     @@ ("(?P<timezone>)" :> [name |-> "timezone", kind |-> "timezone", least |-> 0, most |-> 0,
            alternatives |-> <<<<"Z">>, <<"z">>>>])
     @@ ("(?P<_012345>)" :> [name |-> "_012345", kind |-> "digits", least |-> 6, most |-> 6,
            alternatives |-> <<>>])
     @@ ("(?P<_12345>)" :> [name |-> "_12345", kind |-> "digits", least |-> 1, most |-> 6,
            alternatives |-> <<>>])
     @@ ("(?P<_012>)" :> [name |-> "_012", kind |-> "digits", least |-> 3, most |-> 3,
            alternatives |-> <<>>])
     @@ ("(?P<_12>)" :> [name |-> "_12", kind |-> "digits", least |-> 1, most |-> 3,
            alternatives |-> <<>>])
     @@ ("(?P<_13>)" :> [name |-> "_13", kind |-> "digits", least |-> 2, most |-> 2,
            alternatives |-> <<>>])
     @@ ("(?P<_07>)" :> [name |-> "_07", kind |-> "digits", least |-> 2, most |-> 2,
            alternatives |-> <<>>])
     @@ ("(?P<_04>)" :> [name |-> "_04", kind |-> "digits", least |-> 2, most |-> 2,
            alternatives |-> <<>>])
     @@ ("(?P<_03>)" :> [name |-> "_03", kind |-> "digits", least |-> 2, most |-> 2,
            alternatives |-> <<>>])
     @@ ("(?P<_02>)" :> [name |-> "_02", kind |-> "digits", least |-> 2, most |-> 2,
            alternatives |-> <<>>])
     @@ ("(?P<_01>)" :> [name |-> "_01", kind |-> "digits", least |-> 2, most |-> 2,
            alternatives |-> <<>>])
     @@ ("(?P<_7>)" :> [name |-> "_7", kind |-> "digits", least |-> 1, most |-> 2,
            alternatives |-> <<>>])
     @@ ("(?P<_4>)" :> [name |-> "_4", kind |-> "digits", least |-> 1, most |-> 2,
            alternatives |-> <<>>])
     @@ ("(?P<_3>)" :> [name |-> "_3", kind |-> "digits", least |-> 1, most |-> 2,
            alternatives |-> <<>>])
     @@ ("(?P<_2>)" :> [name |-> "_2", kind |-> "digits", least |-> 1, most |-> 2,
            alternatives |-> <<>>])
     @@ ("(?P<_1>)" :> [name |-> "_1", kind |-> "digits", least |-> 1, most |-> 2,
            alternatives |-> <<>>])
     @@ ("(?P<_pm>)" :> [name |-> "_pm", kind |-> "names", least |-> 0, most |-> 0,
            alternatives |-> <<<<"a", "m">>, <<"p", "m">>>>])
     @@ ("(?P<_p_m_>)" :> [name |-> "_p_m_", kind |-> "names", least |-> 0, most |-> 0,
            alternatives |-> <<<<"a", ".", "m", ".">>, <<"p", ".", "m", ".">>>>])
     @@ ("(?P<_PM>)" :> [name |-> "_PM", kind |-> "names", least |-> 0, most |-> 0,
            alternatives |-> <<<<"A", "M">>, <<"P", "M">>>>])
     @@ ("(?P<_P_M_>)" :> [name |-> "_P_M_", kind |-> "names", least |-> 0, most |-> 0,
            alternatives |-> <<<<"A", ".", "M", ".">>, <<"P", ".", "M", ".">>>>])

IsGroup(element) == element \in DOMAIN Groups

\* the names of the groups of a pattern, in order
RECURSIVE GroupNames(_)
GroupNames(regex) ==
    IF regex = <<>> THEN <<>>
    ELSE IF IsGroup(Head(regex))
    THEN <<Groups[Head(regex)].name>> \o GroupNames(Tail(regex))
    ELSE GroupNames(Tail(regex))

\* re.compile raises re.error for a group name defined twice
RedefinesGroup(regex) ==
    \E i, j \in DOMAIN GroupNames(regex) :
        i < j /\ GroupNames(regex)[i] = GroupNames(regex)[j]

\* [a-zA-Z_/]
IsTimezoneChar(c) ==
    c \in {"_", "/"} \/ (Ord("A") <= Ord(c) /\ Ord(c) <= Ord("Z"))
                     \/ (Ord("a") <= Ord(c) /\ Ord(c) <= Ord("z"))

\* the length of the run of characters of one class from pos on, at most
RECURSIVE RunOfDigits(_, _, _)
RunOfDigits(s, pos, most) ==
    IF most = 0 \/ pos > Len(s) \/ ~IsDigit(s[pos]) THEN 0
    ELSE 1 + RunOfDigits(s, pos + 1, most - 1)

RECURSIVE RunOfTimezoneChars(_, _)
RunOfTimezoneChars(s, pos) ==
    IF pos > Len(s) \/ ~IsTimezoneChar(s[pos]) THEN 0
    ELSE 1 + RunOfTimezoneChars(s, pos + 1)

\* the spans of length longest down to least at pos, longest first (greedy)
RECURSIVE Greedy(_, _, _, _)
Greedy(s, pos, longest, least) ==
    IF longest < least THEN <<>>
    ELSE <<SubSeq(s, pos, pos + longest - 1)>> \o Greedy(s, pos, longest - 1, least)

\* the alternatives of a list that match at pos, in the order of the list
RECURSIVE Alternatives(_, _, _)
Alternatives(s, pos, list) ==
    IF list = <<>> THEN <<>>
    ELSE (IF StartsWithAt(s, pos, Head(list)) THEN <<Head(list)>> ELSE <<>>)
         \o Alternatives(s, pos, Tail(list))

\* the texts an element can match at pos, in the order the matcher tries them
Candidates(element, s, pos) ==
    IF IsGroup(element)
    THEN CASE Groups[element].kind = "digits" ->
                 Greedy(s, pos, RunOfDigits(s, pos, Groups[element].most),
                        Groups[element].least)
           [] Groups[element].kind = "names" ->
                 Alternatives(s, pos, Groups[element].alternatives)
           [] OTHER ->
                 Alternatives(s, pos, Groups[element].alternatives)
                 \o Greedy(s, pos, RunOfTimezoneChars(s, pos), 1)
    ELSE IF pos <= Len(s) /\ (element = "." \/ element = s[pos])
    THEN <<<<s[pos]>>>>
    ELSE <<>>

\* the index of the "]" that closes the character set opened before i
RECURSIVE SetEnd(_, _)
SetEnd(regex, i) ==
    IF i > Len(regex) \/ regex[i] = "]" THEN i ELSE SetEnd(regex, i + 1)

\* the element that starts at i is followed by "?"
IsOptional(regex, last) == last < Len(regex) /\ regex[last + 1] = "?"

\* the index of the last symbol of the element that starts at i: a character
\* set runs to its "]", and a "?" after an element belongs to it
ElementEnd(regex, i) ==
    IF regex[i] = "["
    THEN SetEnd(regex, i + 1) + (IF IsOptional(regex, SetEnd(regex, i + 1)) THEN 1 ELSE 0)
    ELSE i + (IF IsOptional(regex, i) THEN 1 ELSE 0)

\* the texts the element that starts at i can match at pos, in the order the
\* matcher tries them: a character of the set, or what the single symbol
\* matches, and after it the empty text when the element is optional
CandidatesAt(regex, i, s, pos) ==
    IF regex[i] = "["
    THEN (IF pos <= Len(s)
             /\ \E j \in (i + 1)..(SetEnd(regex, i + 1) - 1) : regex[j] = s[pos]
          THEN <<<<s[pos]>>>> ELSE <<>>)
         \o (IF IsOptional(regex, SetEnd(regex, i + 1)) THEN << <<>> >> ELSE <<>>)
    ELSE Candidates(regex[i], s, pos)
         \o (IF IsOptional(regex, i) THEN << <<>> >> ELSE <<>>)

\* the result of a failed match
NoMatch == [ok |-> FALSE, groupdict |-> <<>>]

\* the groupdict with the text of a group added (an optional group that
\* matched nothing stays None)
Bind(element, text, groupdict) ==
    IF IsGroup(element) /\ text # <<>>
    THEN (Groups[element].name :> text) @@ groupdict
    ELSE groupdict

\* the backtracking matcher: the i-th element takes the first of its
\* candidates after which the rest of the pattern matches
RECURSIVE MatchFrom(_, _, _, _)
RECURSIVE TryCandidates(_, _, _, _, _, _)
RECURSIVE Attempt(_, _, _, _, _, _, _)
Attempt(regex, i, s, pos, candidates, k, rest) ==
    IF rest.ok
    THEN [ok |-> TRUE, groupdict |-> Bind(regex[i], candidates[k], rest.groupdict)]
    ELSE TryCandidates(regex, i, s, pos, candidates, k + 1)

TryCandidates(regex, i, s, pos, candidates, k) ==
    IF k > Len(candidates) THEN NoMatch
    ELSE Attempt(regex, i, s, pos, candidates, k,
                 MatchFrom(regex, ElementEnd(regex, i) + 1, s,
                           pos + Len(candidates[k])))

MatchFrom(regex, i, s, pos) ==
    IF i > Len(regex) THEN [ok |-> TRUE, groupdict |-> <<>>]
    ELSE TryCandidates(regex, i, s, pos, CandidatesAt(regex, i, s, pos), 1)

\* re.match(regex, string): anchored at the start, the end is free
re_match(regex, string) == MatchFrom(regex, 1, string, 1)

\* unprocessed_matches.get(name, None)
Get(groupdict, name) ==
    IF name \in DOMAIN groupdict THEN Some(groupdict[name]) ELSE None

(***************************************************************************)
(* When.from_string: the reconciliation of the groups into fields.         *)
(***************************************************************************)
\* the potentials that are not None
RECURSIVE NotNone(_)
NotNone(potentials) ==
    IF potentials = <<>> THEN <<>>
    ELSE (IF IsNone(Head(potentials)) THEN <<>> ELSE <<Head(potentials)>>)
         \o NotNone(Tail(potentials))

\* _scrub_potentials on the potentials that are not None: [err, value]
ScrubNotNone(potentials) ==
    IF potentials = <<>> THEN [err |-> "none", value |-> None]
    ELSE IF \E i \in DOMAIN potentials : potentials[i] # potentials[1]
    THEN [err |-> "AmbiguousTimeError", value |-> None]
    ELSE [err |-> "none", value |-> potentials[1]]

\* a scrub that takes the first potential without comparing the others
_scrub_potentials_first(potentials) ==
    IF NotNone(potentials) = <<>> THEN [err |-> "none", value |-> None]
    ELSE [err |-> "none", value |-> NotNone(potentials)[1]]

_scrub_potentials(potentials) == ScrubNotNone(NotNone(potentials))

\* int(text) of a group that took part in the match
OptInt(text) == IF IsNone(text) THEN None ELSE Some(int(Val(text)))

\* k * int(text) + offset of a group that took part in the match
OptScaled(text, k, offset) ==
    IF IsNone(text) THEN None ELSE Some(k * int(Val(text)) + offset)

\* NotNoneDict.__setitem__ with a value that replaces nothing: the existing
\* value stays unless it is None
NotNoneDict_setitem_keeps(mapping, item, value) ==
    IF item \in DOMAIN mapping
    THEN IF IsNone(mapping[item]) THEN [mapping EXCEPT ![item] = value] ELSE mapping
    ELSE (item :> value) @@ mapping

\* NotNoneDict.__setitem__
NotNoneDict_setitem(mapping, item, value) ==
    IF item \in DOMAIN mapping
    THEN IF ~IsNone(value) THEN [mapping EXCEPT ![item] = value] ELSE mapping
    ELSE (item :> value) @@ mapping

\* When._process_year followed by _scrub_potentials; pytz has no ValueError,
\* so raising it is an AttributeError
_process_year(year_from_1776, decade_from_76, century) ==
    IF ~IsNone(decade_from_76) /\ IsNone(century)
    THEN [err |-> "AttributeError", value |-> None]
    ELSE IF /\ ~IsNone(year_from_1776)
            /\ ~IsNone(century)
            /\ (int(Val(year_from_1776)) - Val(century) > 100
                \/ Val(century) - int(Val(year_from_1776)) > 100)
    THEN [err |-> "AmbiguousTimeError", value |-> None]
    ELSE _scrub_potentials(<<OptInt(year_from_1776),
                             IF IsNone(decade_from_76) THEN None
                             ELSE OptScaled(decade_from_76, 1, Val(century))>>)

\* month_to_int
month_to_int(name) ==
    IF IsNone(name) THEN None
    ELSE Some(CHOOSE n \in 1..12 :
                 Val(name) = MonthNames[n] \/ Val(name) = SubSeq(MonthNames[n], 1, 3))

_process_month(month_from_July, month_from_Jul, month_from_07, month_from_7) ==
    _scrub_potentials(<<month_to_int(month_from_July), month_to_int(month_from_Jul),
                        OptInt(month_from_07), OptInt(month_from_7)>>)

_process_day(day_from_04, day_from_4) ==
    _scrub_potentials(<<OptInt(day_from_04), OptInt(day_from_4)>>)

\* a meridian group that adds nothing whatever its spelling
MeridianOffset_none(text, pm) == IF IsNone(text) THEN None ELSE Some(0)

\* the offset of a meridian group: 12 for the pm spelling, 0 otherwise
MeridianOffset(text, pm) ==
    IF IsNone(text) THEN None ELSE IF Val(text) = pm THEN Some(12) ELSE Some(0)

\* the hours once the meridian offset is known
HoursWithOffset(hour_from_13, hour_from_01, hour_from_1, meridian_offset) ==
    IF meridian_offset.err # "none" THEN meridian_offset
    ELSE _scrub_potentials(
             <<OptInt(hour_from_13),
               OptScaled(hour_from_01, 1,
                         IF IsNone(meridian_offset.value) THEN 0
                         ELSE Val(meridian_offset.value)),
               OptScaled(hour_from_1, 1,
                         IF IsNone(meridian_offset.value) THEN 0
                         ELSE Val(meridian_offset.value))>>)

_process_hour(hour_from_13, hour_from_01, hour_from_1, meridian_from_pm, meridian_from_p_m_, meridian_from_PM, meridian_from_P_M_) ==
    HoursWithOffset(hour_from_13, hour_from_01, hour_from_1,
        _scrub_potentials(
            <<MeridianOffset(meridian_from_pm, <<"p", "m">>),
              MeridianOffset(meridian_from_p_m_, <<"p", ".", "m", ".">>),
              MeridianOffset(meridian_from_PM, <<"P", "M">>),
              MeridianOffset(meridian_from_P_M_, <<"P", ".", "M", ".">>)>>))

_process_minute(minute_from_02, minute_from_2) ==
    _scrub_potentials(<<OptInt(minute_from_02), OptInt(minute_from_2)>>)

\* the two-digit group left out
_process_second_ignores_03(second_from_03, second_from_3) ==
    _scrub_potentials(<<None, OptInt(second_from_3)>>)

_process_second(second_from_03, second_from_3) ==
    _scrub_potentials(<<OptInt(second_from_03), OptInt(second_from_3)>>)

_process_fractional_sections(millisecond_from_012, millisecond_from_12, microsecond_from_12345, microsecond_from_012345) ==
    _scrub_potentials(<<OptScaled(millisecond_from_012, 1000, 0),
                        OptScaled(millisecond_from_12, 1000, 0),
                        OptInt(microsecond_from_12345),
                        OptInt(microsecond_from_012345)>>)

\* When._process_timezone, as the registry key the text names
_process_timezone(timezone_from_America_New_York) ==
    IF IsNone(timezone_from_America_New_York) THEN None
    ELSE IF Val(timezone_from_America_New_York) \in {<<"z">>, <<"Z">>} THEN Some("utc")
    ELSE Some(TzKey(Val(timezone_from_America_New_York)))

\* the fields from_string reconciles, in the order it processes them
Fields == <<"year", "month", "day", "hour", "minute", "second", "microsecond">>

\* the value each field gets from the groups of the match: [err, value]
Extracted(g, century) ==
    [year |-> _process_year(Get(g, "_1776"), Get(g, "_76"), century),
     month |-> _process_month(Get(g, "_July"), Get(g, "_Jul"), Get(g, "_07"),
                              Get(g, "_7")),
     day |-> _process_day(Get(g, "_04"), Get(g, "_4")),
     hour |-> _process_hour(Get(g, "_13"), Get(g, "_01"), Get(g, "_1"),
                            Get(g, "_pm"), Get(g, "_p_m_"), Get(g, "_PM"),
                            Get(g, "_P_M_")),
     minute |-> _process_minute(Get(g, "_02"), Get(g, "_2")),
     second |-> _process_second(Get(g, "_03"), Get(g, "_3")),
     microsecond |-> _process_fractional_sections(Get(g, "_012"), Get(g, "_12"),
                                                  Get(g, "_12345"), Get(g, "_012345")),
     timezone |-> [err |-> "none", value |-> _process_timezone(Get(g, "timezone"))]]

\* the first exception raised while the fields are processed in order
RECURSIVE FirstError(_, _)
FirstError(extracted, i) ==
    IF i > Len(Fields) THEN "none"
    ELSE IF extracted[Fields[i]].err # "none" THEN extracted[Fields[i]].err
    ELSE FirstError(extracted, i + 1)

\* matched[field] = value for the fields up to the i-th, in order
RECURSIVE Assigned(_, _, _)
Assigned(matched, extracted, i) ==
    IF i = 0 THEN matched
    ELSE NotNoneDict_setitem(Assigned(matched, extracted, i - 1),
                             Fields[i], extracted[Fields[i]].value)

\* the NotNoneDict of the defaults the caller supplied
Seeded(a, microsecond) ==
    [year |-> a.year, month |-> a.month, day |-> a.day, hour |-> a.hour,
     minute |-> a.minute, second |-> a.second, microsecond |-> microsecond,
     timezone |-> a.timezone, dst_if_ambiguous |-> a.dst_if_ambiguous]

\* from_string left by an exception before the fields are built
Raised(err, stage) ==
    [err |-> err, stage |-> stage, when |-> None, seeded |-> <<>>,
     extracted |-> <<>>, matched |-> <<>>]

\* return cls(**matched)
Returned(seeded, extracted, matched, made) ==
    [err |-> made.err, stage |-> "init", when |-> made.when, seeded |-> seeded,
     extracted |-> extracted, matched |-> matched]

Built_from(seeded, extracted, matched) ==
    Returned(seeded, extracted, matched, When_init(matched))

\* the fields written into matched one after the other, then the timezone
Reconciled(seeded, extracted) ==
    IF FirstError(extracted, 1) # "none"
    THEN [err |-> FirstError(extracted, 1), stage |-> "process", when |-> None,
          seeded |-> seeded, extracted |-> extracted, matched |-> <<>>]
    ELSE Built_from(seeded, extracted,
                    NotNoneDict_setitem(Assigned(seeded, extracted, Len(Fields)),
                                        "timezone", extracted.timezone.value))

\* the groups processed whether or not the regex matched
Matched_unchecked(a, microsecond, match) ==
    Reconciled(Seeded(a, microsecond), Extracted(match.groupdict, a.century))

\* match = re.match(regex, string)
Matched(a, microsecond, match) ==
    IF ~match.ok THEN Raised("ParsingError", "match")
    ELSE Reconciled(Seeded(a, microsecond), Extracted(match.groupdict, a.century))

\* regex = substitutions.in_string(specifier, substitutions_for_regex)
Compiled(a, microsecond, regex) ==
    IF RedefinesGroup(regex) THEN Raised("re.error", "compile")
    ELSE Matched(a, microsecond, re_match(regex, a.string))

\* the overrides of the fraction never compared with each other
from_string_unchecked(a) ==
    Compiled(a,
             IF ~IsNone(a.millisecond) /\ IsNone(a.microsecond)
             THEN Some(1000 * Val(a.millisecond)) ELSE a.microsecond,
             in_string(a.specifier, substitutions_for_regex))

\* When.from_string on its arguments
from_string(a) ==
    IF /\ ~IsNone(a.millisecond)
       /\ ~IsNone(a.microsecond)
       /\ 1000 * Val(a.millisecond) # Val(a.microsecond)
    THEN Raised("AmbiguousTimeError", "pre-processing")
    ELSE Compiled(a,
                  IF ~IsNone(a.millisecond) /\ IsNone(a.microsecond)
                  THEN Some(1000 * Val(a.millisecond)) ELSE a.microsecond,
                  in_string(a.specifier, substitutions_for_regex))

\* the arguments of from_string(string, specifier) with every default
Defaults(string, specifier) ==
    [string |-> string, specifier |-> specifier, century |-> None, year |-> None,
     month |-> None, day |-> None, hour |-> Some(0), minute |-> Some(0),
     second |-> Some(0), millisecond |-> Some(0), microsecond |-> Some(0),
     meridian |-> None, timezone |-> None, dst_if_ambiguous |-> None]

(***************************************************************************)
(* When.from_iso_format: from_string on a fixed list of specifiers.        *)
(***************************************************************************)
\* specifiers of from_iso_format, in the order of the source
IsoSpecifiers ==
    <<<<"1", "7", "7", "6", "[", "-", "]", "?", "0", "7", "[", "-", "]",
        "?", "0", "4", "[", "T", " ", "]", "?", "1", "3", "[", ":", "]",
        "?", "0", "2", "[", ":", "]", "?", "0", "3", ".", "0", "1", "2",
        "3", "4", "5", "A", "m", "e", "r", "i", "c", "a", "/", "N", "e",
        "w", "_", "Y", "o", "r", "k">>,
      <<"1", "7", "7", "6", "[", "-", "]", "?", "0", "7", "[", "-", "]",
        "?", "0", "4", "[", "T", " ", "]", "?", "1", "3", "[", ":", "]",
        "?", "0", "2", "[", ":", "]", "?", "0", "3", ".", "0", "1", "2",
        "3", "A", "m", "e", "r", "i", "c", "a", "/", "N", "e", "w", "_",
        "Y", "o", "r", "k">>,
      <<"1", "7", "7", "6", "[", "-", "]", "?", "0", "7", "[", "-", "]",
        "?", "0", "4", "[", "T", " ", "]", "?", "1", "3", "[", ":", "]",
        "?", "0", "2", "[", ":", "]", "?", "0", "3", "A", "m", "e", "r",
        "i", "c", "a", "/", "N", "e", "w", "_", "Y", "o", "r", "k">>,
      <<"1", "7", "7", "6", "[", "-", "]", "?", "0", "7", "[", "-", "]",
        "?", "0", "4", "A", "m", "e", "r", "i", "c", "a", "/", "N", "e",
        "w", "_", "Y", "o", "r", "k">>,
      <<"1", "7", "7", "6", "[", "-", "]", "?", "0", "7", "[", "-", "]",
        "?", "0", "4", "[", "T", " ", "]", "?", "1", "3", "[", ":", "]",
        "?", "0", "2", "[", ":", "]", "?", "0", "3", ".", "0", "1", "2",
        "3", "4", "5">>,
      <<"1", "7", "7", "6", "[", "-", "]", "?", "0", "7", "[", "-", "]",
        "?", "0", "4", "[", "T", " ", "]", "?", "1", "3", "[", ":", "]",
        "?", "0", "2", "[", ":", "]", "?", "0", "3", ".", "0", "1", "2",
        "3">>,
      <<"1", "7", "7", "6", "[", "-", "]", "?", "0", "7", "[", "-", "]",
        "?", "0", "4", "[", "T", " ", "]", "?", "1", "3", "[", ":", "]",
        "?", "0", "2", "[", ":", "]", "?", "0", "3">>,
      <<"1", "7", "7", "6", "[", "-", "]", "?", "0", "7", "[", "-", "]",
        "?", "0", "4">>>>

\* from_string(string, specifier, timezone=timezone,
\*             dst_if_ambiguous=dst_if_ambiguous)
IsoArguments(string, specifier, timezone, dst_if_ambiguous) ==
    [Defaults(string, specifier) EXCEPT !.timezone = timezone,
                                        !.dst_if_ambiguous = dst_if_ambiguous]

\* the loop from the k-th specifier on: the first from_string that returns
\* ends it, every exception is swallowed by the bare except, and ParsingError
\* is raised after the last specifier; swallowed lists the exceptions caught
RECURSIVE TryIso(_, _, _, _, _)
RECURSIVE IsoAttempt(_, _, _, _, _, _)
IsoAttempt(string, timezone, dst_if_ambiguous, k, swallowed, r) ==
    IF r.err = "none"
    THEN [err |-> "none", when |-> r.when, specifier |-> k, swallowed |-> swallowed]
    ELSE TryIso(string, timezone, dst_if_ambiguous, k + 1, Append(swallowed, r.err))

TryIso(string, timezone, dst_if_ambiguous, k, swallowed) ==
    IF k > Len(IsoSpecifiers)
    THEN [err |-> "ParsingError", when |-> None, specifier |-> 0,
          swallowed |-> swallowed]
    ELSE IsoAttempt(string, timezone, dst_if_ambiguous, k, swallowed,
                    from_string(IsoArguments(string, IsoSpecifiers[k], timezone,
                                             dst_if_ambiguous)))

\* When.from_iso_format
from_iso_format(string, timezone, dst_if_ambiguous) ==
    TryIso(string, timezone, dst_if_ambiguous, 1, <<>>)

(***************************************************************************)
(* The parser on its own: the arguments of one call are drawn, then        *)
(* from_string is called on them; or a When and a reference template are   *)
(* drawn, and the When is formatted and the text parsed back.              *)
(***************************************************************************)
NumStrings == 15
NumParseSpecifiers == 7
NumOverrides == 14
NumIsoStrings == 9

\* subjects: the two of the doctest, a date, two with a two-digit and a
\* four-digit year and a 12 o'clock, a date with the month spelled out, the
\* two years again at 9 o'clock, two meridian markers that agree and that
\* disagree, a two-digit year alone, the last minute of 1999,
\* two AM markers at 9 o'clock, at 12 o'clock, two PM markers at 12 o'clock
ParseStrings ==
    <<<<"2", "0", "1", "5", "-", "0", "3", "-", "0", "3", " ", "0", "2",
        ":", "5", "8", ":", "5", "9">>,
      <<"2", "0", "1", "5", "-", "0", "3", "-", "0", "3">>,
      <<"2", "0", "1", "5", "-", "0", "3", "-", "0", "3", " ", "2", ":",
        "0", "0", ":", "5", "9", ".", "2", "2", "2", "2", "2", "2", "z",
        " ", "a", ".", "m", ".">>,
      <<"1", "5", " ", "2", "0", "1", "5", "-", "0", "3", "-", "0", "3",
        " ", "1", "2", ":", "3", "0", " ", "P", "M", " ", "u", "t", "c">>,
      <<"1", "4", " ", "2", "0", "1", "5", "-", "0", "3", "-", "0", "3",
        " ", "1", "2", ":", "3", "0", " ", "A", "M", " ", "u", "t", "c">>,
      <<"M", "a", "r", "c", "h", " ", "3", " ", "2", "0", "1", "5">>,
      <<"1", "5", " ", "2", "0", "1", "5", "-", "0", "3", "-", "0", "3",
        " ", "0", "9", ":", "3", "0", " ", "P", "M", " ", "u", "t", "c">>,
      <<"1", "4", " ", "2", "0", "1", "5", "-", "0", "3", "-", "0", "3",
        " ", "0", "9", ":", "3", "0", " ", "A", "M", " ", "u", "t", "c">>,
      <<"2", "0", "1", "5", "-", "0", "3", "-", "0", "3", " ", "0", "9",
        " ", "p", "m", " ", "P", ".", "M", ".">>,
      <<"2", "0", "1", "5", "-", "0", "3", "-", "0", "3", " ", "0", "9",
        " ", "p", "m", " ", "A", ".", "M", ".">>,
      <<"1", "5", "-", "0", "3", "-", "0", "3", " ", "9", " ", "p", ".",
        "m", ".">>,
      <<"1", "9", "9", "9", "-", "1", "2", "-", "3", "1", " ", "2", "3",
        ":", "5", "9", ":", "5", "8">>,
      <<"2", "0", "1", "5", "-", "0", "3", "-", "0", "3", " ", "0", "9",
        " ", "a", "m", " ", "A", ".", "M", ".">>,
      <<"2", "0", "1", "5", "-", "0", "3", "-", "0", "3", " ", "1", "2",
        " ", "a", "m", " ", "A", ".", "M", ".">>,
      <<"2", "0", "1", "5", "-", "0", "3", "-", "0", "3", " ", "1", "2",
        " ", "p", "m", " ", "P", ".", "M", ".">>>>

\* specifiers: the two of the doctest, a date, one with both year tokens and a
\* meridian, a date with the month spelled out, one with two meridian tokens,
\* one with the two-digit year alone
ParseSpecifiers ==
    <<<<"1", "7", "7", "6", "-", "0", "7", "-", "0", "4", " ", "0", "1",
        ":", "0", "2", ":", "0", "3">>,
      <<"1", "7", "7", "6", "-", "0", "7", "-", "0", "4">>,
      <<"1", "7", "7", "6", "-", "0", "7", "-", "0", "4", " ", "1", ":",
        "0", "2", ":", "0", "3", ".", "0", "1", "2", "3", "4", "5", "A",
        "m", "e", "r", "i", "c", "a", "/", "N", "e", "w", "_", "Y", "o",
        "r", "k", " ", "p", ".", "m", ".">>,
      <<"7", "6", " ", "1", "7", "7", "6", "-", "0", "7", "-", "0", "4",
        " ", "0", "1", ":", "0", "2", " ", "P", "M", " ", "A", "m", "e",
        "r", "i", "c", "a", "/", "N", "e", "w", "_", "Y", "o", "r", "k">>,
      <<"J", "u", "l", "y", " ", "4", " ", "1", "7", "7", "6">>,
      <<"1", "7", "7", "6", "-", "0", "7", "-", "0", "4", " ", "0", "1",
        " ", "p", "m", " ", "P", ".", "M", ".">>,
      <<"7", "6", "-", "0", "7", "-", "0", "4", " ", "1", " ", "p", ".",
        "m", ".">>>>

\* keyword arguments given besides string and specifier: the defaults with
\* a timezone, a different and an equal year, an hour, no hour, a century,
\* a microsecond against the default millisecond, no timezone, two centuries
\* under utc, a millisecond with a microsecond that agrees, that disagrees,
\* that is None, a microsecond with no millisecond
Overrides ==
    <<[a \in {"timezone"} |-> Some("utc")],
      [a \in {"timezone", "year"} |-> IF a = "year" THEN Some(2014) ELSE Some("utc")],
      [a \in {"timezone", "year"} |-> IF a = "year" THEN Some(2015) ELSE Some("utc")],
      [a \in {"timezone", "hour"} |-> IF a = "hour" THEN Some(5) ELSE Some("utc")],
      [a \in {"timezone", "hour"} |-> IF a = "hour" THEN None ELSE Some("utc")],
      [a \in {"timezone", "century"} |->
          IF a = "century" THEN Some(2000) ELSE Some("America/New_York")],
      [a \in {"timezone", "microsecond"} |->
          IF a = "microsecond" THEN Some(5) ELSE Some("utc")],
      [a \in {} |-> None],
      [a \in {"timezone", "century"} |->
          IF a = "century" THEN Some(2000) ELSE Some("utc")],
      [a \in {"timezone", "century"} |->
          IF a = "century" THEN Some(1900) ELSE Some("utc")],
      [a \in {"timezone", "millisecond", "microsecond"} |->
          CASE a = "millisecond" -> Some(1)
            [] a = "microsecond" -> Some(1000)
            [] OTHER -> Some("utc")],
      [a \in {"timezone", "millisecond", "microsecond"} |->
          CASE a = "millisecond" -> Some(1)
            [] a = "microsecond" -> Some(5)
            [] OTHER -> Some("utc")],
      [a \in {"timezone", "millisecond", "microsecond"} |->
          CASE a = "millisecond" -> Some(2)
            [] a = "microsecond" -> None
            [] OTHER -> Some("utc")],
      [a \in {"timezone", "millisecond", "microsecond"} |->
          CASE a = "millisecond" -> None
            [] a = "microsecond" -> Some(7)
            [] OTHER -> Some("utc")]>>

\* the arguments of a call: the defaults with the given keywords put in
Arguments(string, specifier, given) ==
    [a \in DOMAIN Defaults(string, specifier) |->
        IF a \in DOMAIN given THEN given[a] ELSE Defaults(string, specifier)[a]]

\* subjects of from_iso_format: the two of the doctest, a date without and
\* with separators, no date, a wall time that occurs twice in New York, a
\* time with a timezone name, a thirteenth month, a blank for the T with four
\* fractional digits
IsoStrings ==
    <<<<"2", "0", "1", "5", "-", "0", "3", "-", "0", "3", "T", "0", "2",
        ":", "0", "0", ":", "5", "9">>,
      <<"2", "0", "1", "5", "-", "0", "3", "-", "0", "3", "T", "0", "2",
        ":", "0", "0", ":", "5", "9", ".", "1", "2", "3", "4", "2", "2",
        "Z">>,
      <<"2", "0", "1", "5", "0", "3", "0", "3">>,
      <<"2", "0", "1", "5", "-", "0", "3", "-", "0", "3">>,
      <<"M", "a", "r", "c", "h", " ", "3">>,
      <<"2", "0", "1", "5", "-", "1", "1", "-", "0", "1", "T", "0", "1",
        ":", "3", "0", ":", "0", "0">>,
      <<"2", "0", "1", "5", "-", "0", "3", "-", "0", "3", "T", "0", "2",
        ":", "0", "0", ":", "5", "9", "A", "m", "e", "r", "i", "c", "a",
        "/", "N", "e", "w", "_", "Y", "o", "r", "k">>,
      <<"2", "0", "1", "5", "-", "1", "3", "-", "0", "3">>,
      <<"2", "0", "1", "5", "-", "0", "3", "-", "0", "3", " ", "0", "2",
        ":", "0", "0", ":", "5", "9", ".", "1", "2", "3", "4">>>>

IsoCalls ==
    {[op |-> "from_iso_format", string |-> IsoStrings[i], timezone |-> tz,
      dst_if_ambiguous |-> dst] :
        i \in 1..Least(NumIsoStrings, Len(IsoStrings)),
        tz \in {None, Some("utc"), Some("America/New_York")},
        dst \in DstFlags}

ParseCalls ==
    {Arguments(ParseStrings[i], ParseSpecifiers[j], Overrides[k]) :
        i \in 1..Least(NumStrings, Len(ParseStrings)),
        j \in 1..Least(NumParseSpecifiers, Len(ParseSpecifiers)),
        k \in 1..Least(NumOverrides, Len(Overrides))}

InitParse ==
    /\ sub = None
    /\ out = [op |-> "init"]
    /\ \/ /\ w = None
          /\ \E a \in ParseCalls : orig = [op |-> "from_string", args |-> a]
       \/ /\ w = None
          /\ orig \in IsoCalls
       \/ /\ \E f \in SampleSet, tz \in timezones, dst \in DstFlags :
                /\ When_init(Kwargs(f, tz, dst)).err = "none"
                /\ w = When_init(Kwargs(f, tz, dst)).when
          /\ \E specifier \in TemplateSet :
                orig = [op |-> "round_trip", specifier |-> specifier]

\* When.from_string(**args): the When it returns, or the exception
FromString ==
    /\ orig.op = "from_string"
    /\ out.op = "init"
    /\ w' = from_string(orig.args).when
    /\ out' = [op |-> "from_string", err |-> from_string(orig.args).err,
               stage |-> from_string(orig.args).stage,
               seeded |-> from_string(orig.args).seeded,
               extracted |-> from_string(orig.args).extracted,
               matched |-> from_string(orig.args).matched]
    /\ UNCHANGED <<orig, sub>>

\* what format and parse in a row leave behind
RoundTripped(formatted, parsed) ==
    [op |-> "round_trip", text |-> formatted.result, err |-> parsed.err,
     stage |-> parsed.stage,
     equal |-> parsed.err = "none" /\ __eq__(parsed.when, formatted.self),
     timezone |-> IF parsed.err = "none" THEN parsed.when._timezone ELSE "none"]

Parsed_back(formatted, specifier) ==
    RoundTripped(formatted, from_string(Defaults(formatted.result, specifier)))

\* When.from_string(format(w, specifier), specifier)
RoundTrip ==
    /\ orig.op = "round_trip"
    /\ out.op = "init"
    /\ w' = __format__(w, orig.specifier).self
    /\ out' = Parsed_back(__format__(w, orig.specifier), orig.specifier)
    /\ UNCHANGED <<orig, sub>>

\* what from_iso_format leaves behind
IsoOutcome(r) ==
    [op |-> "from_iso_format", err |-> r.err, specifier |-> r.specifier,
     swallowed |-> r.swallowed]

\* When.from_iso_format(string, timezone=..., dst_if_ambiguous=...)
FromIsoFormat ==
    /\ orig.op = "from_iso_format"
    /\ out.op = "init"
    /\ w' = from_iso_format(orig.string, orig.timezone, orig.dst_if_ambiguous).when
    /\ out' = IsoOutcome(from_iso_format(orig.string, orig.timezone,
                                         orig.dst_if_ambiguous))
    /\ UNCHANGED <<orig, sub>>

\* the tokens written without padding: minute, second, millisecond,
\* microsecond, 12-hour hour, day, month
UnpaddedTokens ==
    {<<"2">>, <<"3">>, <<"1", "2">>, <<"1", "2", "3", "4", "5">>, <<"1">>, <<"4">>,
     <<"7">>}

\* format(w, token) for a When just constructed
FormatToken(token) ==
    /\ orig.op = "round_trip"
    /\ out.op = "init"
    /\ w' = __format__(w, token).self
    /\ out' = [op |-> "format", specifier |-> token,
               result |-> __format__(w, token).result]
    /\ UNCHANGED <<orig, sub>>

NextParse ==
    \/ FromString
    \/ RoundTrip
    \/ FromIsoFormat
    \/ \E token \in UnpaddedTokens : FormatToken(token)

SpecParse == InitParse /\ [][NextParse]_vars

(***************************************************************************)
(* Properties of the parser.                                               *)
(***************************************************************************)
\* the keys of the reconciliation record that the subject can supply
Reconcilable == {Fields[i] : i \in 1..Len(Fields)} \cup {"timezone"}

\* the value extracted for a key differs from a value the caller supplied
Conflicts(key) ==
    /\ ~IsNone(out.extracted[key].value)
    /\ ~IsNone(out.seeded[key])
    /\ out.extracted[key].value # out.seeded[key]

C10_FormatParseRoundTrip ==
    out.op = "round_trip" => (out.err = "none" /\ out.equal)

\* a When formatted with the ISO template and the text handed to from_string
C10_Witness ==
    /\ out.op = "round_trip"
    /\ orig.specifier = Templates[1]
    /\ out.stage = "compile"

\* the groups of the match of a from_string call that got past re.match
GroupsOf(args) ==
    re_match(in_string(args.specifier, substitutions_for_regex), args.string).groupdict

\* from_string got past re.match
PastMatch == out.op = "from_string" /\ out.stage \in {"process", "init"}

\* both year groups took part in the match and a century was supplied
BothYears ==
    /\ PastMatch
    /\ {"_1776", "_76"} \subseteq DOMAIN GroupsOf(orig.args)
    /\ ~IsNone(orig.args.century)

\* the year of the four-digit group, and of the century and two-digit group
YearFrom1776 == int(GroupsOf(orig.args)["_1776"])

YearFrom76 == Val(orig.args.century) + int(GroupsOf(orig.args)["_76"])

\* C11: with both the 1776 and the 76 token in the template, the year is
\* the common year when the four-digit group and century + two-digit group
\* agree (and a When returned has it), and from_string raises
\* AmbiguousTimeError and returns no When when they differ
C11_YearReconciliation ==
    BothYears =>
        IF YearFrom1776 = YearFrom76
        THEN /\ out.extracted.year = [err |-> "none", value |-> Some(YearFrom1776)]
             /\ (out.stage = "init" => out.matched.year = Some(YearFrom1776))
             /\ (out.err = "none" => w._datetime.year = YearFrom1776)
        ELSE /\ out.err = "AmbiguousTimeError"
             /\ IsNone(w)

\* the two year groups agreed and a When of that year came back
C11_Witness ==
    /\ BothYears
    /\ YearFrom1776 = YearFrom76
    /\ out.err = "none"
    /\ w._datetime.year = 2015

\* the two year groups differed by one and no When came back
C11_WitnessDiffer ==
    /\ BothYears
    /\ YearFrom1776 = YearFrom76 + 1
    /\ out.err = "AmbiguousTimeError"

\* the year of the template is given by the 76 token alone, with no century
OnlyTwoDigitYear ==
    /\ PastMatch
    /\ "_76" \in DOMAIN GroupsOf(orig.args)
    /\ "_1776" \notin DOMAIN GroupsOf(orig.args)
    /\ IsNone(orig.args.century)

\* C12: a template whose year is the 76 token alone, parsed with no century,
\* fails with MissingCenturyError and no other kind of error, and no When
\* is constructed
C12_MissingCenturyError ==
    OnlyTwoDigitYear => (out.err = "MissingCenturyError" /\ IsNone(w))

\* '15-03-03 9 p.m.' parsed against '76-07-04 1 p.m.' with no century
C12_Witness ==
    /\ OnlyTwoDigitYear
    /\ out.err = "AttributeError"
    /\ IsNone(w)

\* the meridian groups and the 12-hour hour groups that took part in the match
MeridianGroups == {"_pm", "_p_m_", "_PM", "_P_M_"} \cap DOMAIN GroupsOf(orig.args)

TwelveHourGroups == {"_01", "_1"} \cap DOMAIN GroupsOf(orig.args)

\* the text of a meridian group is the PM form of one of the four spellings
IsPm(text) ==
    text \in {<<"p", "m">>, <<"p", ".", "m", ".">>, <<"P", "M">>,
              <<"P", ".", "M", ".">>}

\* the 24-hour value of a 12-hour group under the markers of the match
Converted(group) ==
    int(GroupsOf(orig.args)[group])
    + (IF \E m \in MeridianGroups : IsPm(GroupsOf(orig.args)[m]) THEN 12 ELSE 0)

\* the fields processed before the hour raised nothing
NoErrorBeforeHour ==
    \A key \in {"year", "month", "day"} : out.extracted[key].err = "none"

\* C13: with a meridian token in the template, a 12-hour group of value h
\* gives hour h + 12 under the PM form and h under the AM form, in each of
\* the four spellings (09 PM gives 21, 09 AM gives 9); meridian tokens that
\* disagree raise AmbiguousTimeError
C13_MeridianConversion ==
    (PastMatch /\ MeridianGroups # {}) =>
        IF \A a, b \in MeridianGroups :
               IsPm(GroupsOf(orig.args)[a]) = IsPm(GroupsOf(orig.args)[b])
        THEN /\ \A group \in TwelveHourGroups :
                   out.extracted.hour.err = "none" =>
                       out.extracted.hour.value = Some(Converted(group))
             /\ (Cardinality(TwelveHourGroups) = 1
                    /\ "_13" \notin DOMAIN GroupsOf(orig.args))
                  => out.extracted.hour.err = "none"
             /\ (out.err = "none" /\ TwelveHourGroups # {})
                  => \E group \in TwelveHourGroups :
                         w._datetime.hour = Converted(group)
        ELSE /\ out.extracted.hour.err = "AmbiguousTimeError"
             /\ NoErrorBeforeHour => (out.err = "AmbiguousTimeError" /\ IsNone(w))

\* '09' with 'PM' parsed into a When showing hour 21
C13_Witness ==
    /\ PastMatch
    /\ out.err = "none"
    /\ "_01" \in DOMAIN GroupsOf(orig.args)
    /\ GroupsOf(orig.args)["_01"] = <<"0", "9">>
    /\ MeridianGroups = {"_PM"}
    /\ IsPm(GroupsOf(orig.args)["_PM"])
    /\ w._datetime.hour = 21

\* '09' with 'am' and 'A.M.' parsed into a When showing hour 9
C13_WitnessAm ==
    /\ PastMatch
    /\ out.err = "none"
    /\ MeridianGroups = {"_pm", "_P_M_"}
    /\ \A m \in MeridianGroups : ~IsPm(GroupsOf(orig.args)[m])
    /\ GroupsOf(orig.args)["_01"] = <<"0", "9">>
    /\ w._datetime.hour = 9

\* 'pm' next to 'A.M.' in one subject
C13_WitnessDisagree ==
    /\ PastMatch
    /\ MeridianGroups = {"_pm", "_P_M_"}
    /\ IsPm(GroupsOf(orig.args)["_pm"])
    /\ ~IsPm(GroupsOf(orig.args)["_P_M_"])
    /\ out.err = "AmbiguousTimeError"

\* from_string on the k-th specifier of from_iso_format, with the arguments
\* of the call drawn
IsoParse(k) ==
    from_string(IsoArguments(orig.string, IsoSpecifiers[k], orig.timezone,
                             orig.dst_if_ambiguous))

IsoDone == out.op = "from_iso_format"

\* the result is that of the first specifier in the order of the list whose
\* parse succeeds, and ParsingError is raised when none succeeds
FirstSuccessInOrder ==
    /\ out.err \in {"none", "ParsingError"}
    /\ out.err = "none" =>
          /\ out.specifier \in 1..Len(IsoSpecifiers)
          /\ IsoParse(out.specifier).err = "none"
          /\ w = IsoParse(out.specifier).when
          /\ \A k \in 1..(out.specifier - 1) : IsoParse(k).err # "none"
    /\ out.err = "ParsingError" =>
          /\ IsNone(w)
          /\ \A k \in 1..Len(IsoSpecifiers) : IsoParse(k).err # "none"

\* C14: from_iso_format tries its specifiers in the listed order and returns
\* the result of the first one whose parse succeeds; it raises ParsingError
\* only after every specifier has been tried and has failed; and the only
\* failures it swallows on the way are ParsingError.
C14_SwallowsOnlyParsingError ==
    IsoDone =>
        /\ FirstSuccessInOrder
        /\ \A k \in DOMAIN out.swallowed : out.swallowed[k] = "ParsingError"

\* the order of the trial alone, whatever the kind of the failures passed over
C14_FirstSuccessInOrder == IsoDone => FirstSuccessInOrder

\* the time 01:30 of the first of November 2015 occurs twice in New York:
\* the AmbiguousTimeError of the specifier with a time is passed over and the
\* specifier of the date alone gives midnight
C14_Witness ==
    /\ IsoDone
    /\ orig.string = IsoStrings[6]
    /\ orig.timezone = Some("America/New_York")
    /\ out.err = "none"
    /\ out.specifier = 8
    /\ out.swallowed[7] = "AmbiguousTimeError"
    /\ w._datetime.hour = 0 /\ w._datetime.minute = 0

(***************************************************************************)
(* Whether a regex matches a subject at its start, as the set of positions *)
(* each element can end at, without the order of the alternatives.         *)
(***************************************************************************)
\* the positions after one element matched from position p
Ends(element, s, p) ==
    IF IsGroup(element)
    THEN CASE Groups[element].kind = "digits" ->
                 {p + n : n \in {n \in Groups[element].least..Groups[element].most :
                                    /\ p + n - 1 <= Len(s)
                                    /\ \A q \in p..(p + n - 1) : IsDigit(s[q])}}
           [] Groups[element].kind = "names" ->
                 {p + Len(Groups[element].alternatives[k]) :
                     k \in {k \in DOMAIN Groups[element].alternatives :
                               StartsWithAt(s, p, Groups[element].alternatives[k])}}
           [] OTHER ->
                 {p + n : n \in {n \in 1..(Len(s) - p + 1) :
                                    \A q \in p..(p + n - 1) : IsTimezoneChar(s[q])}}
    ELSE IF p <= Len(s) /\ (element = "." \/ element = s[p]) THEN {p + 1} ELSE {}

\* the same for the element that starts at index i of the regex, a character
\* set and a following ? included
EndsAt(regex, i, s, p) ==
    (IF regex[i] = "["
     THEN (IF p <= Len(s) /\ \E j \in (i + 1)..(SetEnd(regex, i + 1) - 1) : regex[j] = s[p]
           THEN {p + 1} ELSE {})
     ELSE Ends(regex[i], s, p))
    \cup (IF ElementEnd(regex, i) <= Len(regex) /\ regex[ElementEnd(regex, i)] = "?"
          THEN {p} ELSE {})

\* the positions the elements from index i on can end at, from those of P
RECURSIVE Reachable(_, _, _, _)
Reachable(regex, i, s, P) ==
    IF i > Len(regex) THEN P
    ELSE Reachable(regex, ElementEnd(regex, i) + 1, s,
                   UNION {EndsAt(regex, i, s, p) : p \in P})

\* re.match(regex, string) is not None
MatchesAtStart(a) ==
    Reachable(in_string(a.specifier, substitutions_for_regex), 1, a.string, {1}) # {}

\* the overrides of the fraction of a second contradict each other
InconsistentFraction(a) ==
    /\ ~IsNone(a.millisecond)
    /\ ~IsNone(a.microsecond)
    /\ 1000 * Val(a.millisecond) # Val(a.microsecond)

\* the call gets as far as matching the regex against the subject
ReachesMatching(a) ==
    /\ ~InconsistentFraction(a)
    /\ ~RedefinesGroup(in_string(a.specifier, substitutions_for_regex))

FromStringDone == orig.op = "from_string" /\ out.op = "from_string"

\* C15: from_string fails with ParsingError whenever the regex built from the
\* specifier does not match the subject at its start, and whenever the call
\* fails, at any stage, it returns no When.
C15_NoMatchRaisesParsingError ==
    FromStringDone =>
        /\ (ReachesMatching(orig.args) /\ ~MatchesAtStart(orig.args))
              => out.err = "ParsingError"
        /\ out.err # "none" => IsNone(w)

\* 'March 3 2015' against '1776-07-04'
C15_Witness ==
    /\ FromStringDone
    /\ ReachesMatching(orig.args)
    /\ ~MatchesAtStart(orig.args)
    /\ orig.args.string = ParseStrings[6]
    /\ orig.args.specifier = ParseSpecifiers[2]
    /\ out.err = "ParsingError"
    /\ IsNone(w)

\* a subject the regex matches, with a failure after the match: no When
C15_WitnessLater ==
    /\ FromStringDone
    /\ MatchesAtStart(orig.args)
    /\ out.stage \in {"process", "init"}
    /\ out.err \notin {"none", "ParsingError"}
    /\ IsNone(w)

(***************************************************************************)
(* Properties of pickling and of assignments to the calendrical fields,    *)
(* under SpecReduce.                                                       *)
(***************************************************************************)
Reduced == out.op = "reduce"

\* C16: for a When in any view timezone, also after the timezone was
\* reassigned, the class called on the arguments of __reduce__ gives a When
\* that is equal (same UTC anchor) and identically viewed (same view timezone,
\* same displayed fields).
C16_ReduceRoundTrip ==
    Reduced =>
        /\ out.err = "none"
        /\ __eq__(out.copy, w)
        /\ Anchor(out.copy) = Anchor(w)
        /\ out.copy._timezone = w._timezone
        /\ out.copy._datetime = w._datetime

\* a When reduced after its timezone was reassigned
C16_Witness ==
    /\ Reduced
    /\ w._timezone # orig.timezone
    /\ w._timezone # "utc"
    /\ out.err = "none"
    /\ out.copy._timezone = w._timezone
    /\ __eq__(out.copy, w)

\* a When whose displayed time occurs twice in its view timezone, in the
\* first of the two hours
C16_WitnessOverlap ==
    /\ Reduced
    /\ Cardinality(PossibleOffsets(w._timezone, FieldsOf(w._datetime))) = 2
    /\ When_dst(w)
    /\ out.err = "none"
    /\ __eq__(out.copy, w)

\* C17: assigning to year, month, day, hour, minute, second, microsecond,
\* weekday or day_of_year fails with an error, and the UTC anchor, the view
\* timezone and the displayed fields are what they were.
C17_FieldAssignmentFails ==
    [][out'.op = "set_field" =>
          /\ out'.err # "none"
          /\ Anchor(w') = Anchor(w)
          /\ w'._timezone = w._timezone
          /\ w'._datetime = w._datetime]_vars

\* an assignment to a field with a setter, after the view was changed
C17_Witness ==
    /\ out.op = "set_field"
    /\ out.field = "hour"
    /\ out.err = "NotImplementedError"
    /\ w._timezone # orig.timezone

\* an assignment to a field without a setter
C17_WitnessGetterOnly ==
    /\ out.op = "set_field"
    /\ out.field \in GetterOnlyFields
    /\ out.err = "AttributeError"

(***************************************************************************)
(* Properties of the basic parse and of the fraction overrides, under      *)
(* SpecParse.                                                              *)
(***************************************************************************)
\* the subject is dddd-dd-dd dd:dd:dd
IsBasicSubject(s) ==
    /\ Len(s) = 19
    /\ \A p \in 1..19 :
          CASE p \in {5, 8} -> s[p] = "-"
            [] p = 11 -> s[p] = " "
            [] p \in {14, 17} -> s[p] = ":"
            [] OTHER -> IsDigit(s[p])

\* the integers at the spans of 1776, 07, 04, 01, 02 and 03, microsecond 0
SpansOf(s) ==
    Civil(int(SubSeq(s, 1, 4)), int(SubSeq(s, 6, 7)), int(SubSeq(s, 9, 10)),
          int(SubSeq(s, 12, 13)), int(SubSeq(s, 15, 16)), int(SubSeq(s, 18, 19)),
          0)

\* from_string(string, '1776-07-04 01:02:03', timezone='utc')
IsBasicCall ==
    /\ FromStringDone
    /\ orig.args = Arguments(orig.args.string, ParseSpecifiers[1], Overrides[1])
    /\ IsBasicSubject(orig.args.string)

\* C18: with the specifier '1776-07-04 01:02:03' and timezone='utc', a
\* matching subject gives a When whose UTC fields are the integers read from
\* the spans of the six tokens, with microsecond 0; '2015-03-03 02:58:59'
\* gives (2015, 3, 3, 2, 58, 59, 0).
C18_BasicParse ==
    /\ (IsBasicCall /\ ValidFields(SpansOf(orig.args.string))) =>
          /\ MatchesAtStart(orig.args)
          /\ out.err = "none"
          /\ FieldsOf(w._utc) = SpansOf(orig.args.string)
          /\ w._timezone = "utc"
    /\ (IsBasicCall /\ orig.args.string = ParseStrings[1]) =>
          /\ out.err = "none"
          /\ AttributesTuple(w._utc) = <<2015, 3, 3, 2, 58, 59, 0>>

\* the call of the doctest
C18_Witness ==
    /\ IsBasicCall
    /\ orig.args.string = ParseStrings[1]
    /\ out.err = "none"
    /\ AttributesTuple(w._utc) = <<2015, 3, 3, 2, 58, 59, 0>>

\* another subject of the same shape
C18_WitnessOther ==
    /\ IsBasicCall
    /\ orig.args.string # ParseStrings[1]
    /\ out.err = "none"
    /\ FieldsOf(w._utc) = SpansOf(orig.args.string)

FractionOverridesDisagree ==
    /\ FromStringDone
    /\ ~IsNone(orig.args.millisecond)
    /\ ~IsNone(orig.args.microsecond)
    /\ 1000 * Val(orig.args.millisecond) # Val(orig.args.microsecond)

\* C19: a millisecond and a microsecond override with 1000 * millisecond #
\* microsecond make from_string fail with AmbiguousTimeError before any
\* matching is done: whether or not the subject matches, nothing is matched,
\* extracted or built.
C19_InconsistentFractionOverrides ==
    FractionOverridesDisagree =>
        /\ out.err = "AmbiguousTimeError"
        /\ out.stage = "pre-processing"
        /\ out.matched = <<>> /\ out.extracted = <<>>
        /\ IsNone(w)

\* millisecond=1 with microsecond=5 on a subject the regex does not match
C19_Witness ==
    /\ FractionOverridesDisagree
    /\ ~MatchesAtStart(orig.args)
    /\ out.err = "AmbiguousTimeError"
    /\ IsNone(w)

\* the same overrides on a subject that would parse
C19_WitnessMatching ==
    /\ FractionOverridesDisagree
    /\ MatchesAtStart(orig.args)
    /\ orig.args.specifier = ParseSpecifiers[1]
    /\ out.err = "AmbiguousTimeError"
    /\ IsNone(w)

(***************************************************************************)
(* While: a duration held as one scalar of seconds.  A number of seconds   *)
(* is kept exactly, as whole seconds and millionths, and a quotient as its *)
(* numerator and denominator.                                              *)
(***************************************************************************)
\* s + u * 1e-6 seconds
Seconds(s, u) == [s |-> s, u |-> u]

\* the millionths carried into the seconds
Carried(x) == Seconds(x.s + x.u \div 1000000, x.u % 1000000)

Plus(x, y) == Carried(Seconds(x.s + y.s, x.u + y.u))

Times(k, x) == Carried(Seconds(k * x.s, k * x.u))

\* While.conversions, to seconds
conversions ==
    [microseconds |-> Seconds(0, 1),
     milliseconds |-> Seconds(0, 1000),
     seconds |-> Seconds(1, 0),
     minutes |-> Seconds(60, 0),
     hours |-> Seconds(3600, 0),
     days |-> Times(24, Seconds(3600, 0)),
     weeks |-> Times(7, Times(24, Seconds(3600, 0)))]

\* the keyword parameters of While.__init__
InitParameters ==
    {"days", "hours", "minutes", "seconds", "milliseconds", "microseconds"}

\* the value a parameter is bound to: the keyword given, or the default 0
Bound(kw, name) == IF name \in DOMAIN kw THEN kw[name] ELSE 0

\* quantity * self.conversions[name]
Term(kw, name) == Times(Bound(kw, name), conversions[name])

\* While(**kw): a keyword that is no parameter raises TypeError
While_init(kw) ==
    IF ~(DOMAIN kw \subseteq InitParameters)
    THEN [err |-> "TypeError", while |-> None]
    ELSE [err |-> "none",
          while |-> [_seconds |->
              Plus(Plus(Plus(Plus(Plus(Term(kw, "days"), Term(kw, "hours")),
                                  Term(kw, "minutes")),
                             Term(kw, "seconds")),
                        Term(kw, "milliseconds")),
                   Term(kw, "microseconds"))]]

\* While.__getattr__: self._seconds / float(self.conversions[name])
__getattr__(self, name) ==
    IF name \in DOMAIN conversions
    THEN [err |-> "none", value |-> [num |-> self._seconds, den |-> conversions[name]]]
    ELSE [err |-> "AttributeError", value |-> None]

Minus(x, y) == Carried(Seconds(x.s - y.s, x.u - y.u))

\* self.seconds: self._seconds / float(1)
While_seconds(self) == __getattr__(self, "seconds").value.num

\* While(seconds=x) for a number of seconds x: x * 1, every other term 0
While_from_seconds(x) == [_seconds |-> x]

\* While.__add__ for another While
__add__(self, other) ==
    While_from_seconds(Plus(While_seconds(self), While_seconds(other)))

\* While.__sub__ for another While
__sub__(self, other) ==
    While_from_seconds(Minus(While_seconds(self), While_seconds(other)))

\* an object where the interpreter put it
Allocated(object, address) == [address |-> address, object |-> object]

\* a == b: While defines no __eq__, so object.__eq__ answers, and it is
\* true for one and the same object only
object_eq(a, b) == a.address = b.address

(***************************************************************************)
(* The life of one While: the keywords of a call are drawn, the While is   *)
(* constructed, then its attributes are read.                              *)
(***************************************************************************)
MaxQuantity == 2
MaxUnits == 2

\* calls with at most MaxUnits keywords among the units of the table
WhileCalls ==
    UNION {[S -> 1..MaxQuantity] :
              S \in {S \in SUBSET DOMAIN conversions : Cardinality(S) <= MaxUnits}}

\* the left operand of the documented subtraction: While(seconds=90)
ExampleCalls == {[n \in {"seconds"} |-> 90]}

\* right operands: While(seconds=30), While(minutes=1, milliseconds=1),
\* While(days=2)
OtherWhiles ==
    {While_init(kw).while :
        kw \in {[n \in {"seconds"} |-> 30],
                [n \in {"minutes", "milliseconds"} |-> 1],
                [n \in {"days"} |-> 2]}}

InitWhile ==
    /\ w = None
    /\ \E kw \in WhileCalls \cup ExampleCalls : orig = [op |-> "While", kwargs |-> kw]
    /\ out = [op |-> "init"]
    /\ sub = None

\* While(**kwargs)
Construct ==
    /\ out.op = "init"
    /\ w' = While_init(orig.kwargs).while
    /\ out' = [op |-> "While", err |-> While_init(orig.kwargs).err]
    /\ UNCHANGED <<orig, sub>>

\* w.<name>
GetAttr(name) ==
    /\ out.op # "init"
    /\ ~IsNone(w)
    /\ out' = [op |-> "getattr", name |-> name, err |-> __getattr__(w, name).err,
               value |-> __getattr__(w, name).value]
    /\ UNCHANGED <<w, orig, sub>>

\* what an operation and the While built from the scalars leave behind: the
\* two are objects of their own, and == is asked of them
Compared(op, other, result, expected) ==
    [op |-> op, other |-> other, result |-> result, expected |-> expected,
     eq |-> object_eq(Allocated(result, 1), Allocated(expected, 2))]

\* (w + other) == While(seconds=w.seconds + other.seconds)
Add(other) ==
    /\ out.op # "init"
    /\ ~IsNone(w)
    /\ out' = Compared("add", other, __add__(w, other),
                       While_from_seconds(Plus(While_seconds(w), While_seconds(other))))
    /\ UNCHANGED <<w, orig, sub>>

\* (w - other) == While(seconds=w.seconds - other.seconds)
Sub(other) ==
    /\ out.op # "init"
    /\ ~IsNone(w)
    /\ out' = Compared("sub", other, __sub__(w, other),
                       While_from_seconds(Minus(While_seconds(w), While_seconds(other))))
    /\ UNCHANGED <<w, orig, sub>>

NextWhile ==
    \/ Construct
    \/ \E name \in DOMAIN conversions \cup {"fortnights"} : GetAttr(name)
    \/ \E other \in OtherWhiles : Add(other)
    \/ \E other \in OtherWhiles : Sub(other)

SpecWhile == InitWhile /\ [][NextWhile]_vars

\* the sum of quantity * factor over the keywords of a call
RECURSIVE QuantitySum(_, _)
QuantitySum(kw, names) ==
    IF names = {} THEN Seconds(0, 0)
    ELSE Plus(QuantitySum(kw, names \ {CHOOSE n \in names : TRUE}),
              Times(kw[CHOOSE n \in names : TRUE],
                    conversions[CHOOSE n \in names : TRUE]))

\* a read of a unit returns scalar / factor
AccessorIsQuotient ==
    (out.op = "getattr" /\ out.name \in DOMAIN conversions) =>
        /\ out.err = "none"
        /\ out.value.num = w._seconds
        /\ out.value.den = conversions[out.name]

\* C20: a While can be constructed from a quantity of every unit of the
\* conversion table (weeks, days, hours, minutes, seconds, milliseconds,
\* microseconds); its scalar is the sum of quantity * factor; and every
\* unit's accessor returns scalar / factor.
C20_WhileFromEveryUnit ==
    /\ out.op = "While" =>
          /\ out.err = "none"
          /\ w._seconds = QuantitySum(orig.kwargs, DOMAIN orig.kwargs)
    /\ AccessorIsQuotient

\* the same for the keywords __init__ has, with the first example of the
\* claim: While(days=1).hours == 24
C20_WhileFromInitParameters ==
    /\ (out.op = "While" /\ DOMAIN orig.kwargs \subseteq InitParameters) =>
          /\ out.err = "none"
          /\ w._seconds = QuantitySum(orig.kwargs, DOMAIN orig.kwargs)
    /\ AccessorIsQuotient
    /\ (/\ out.op = "getattr"
        /\ DOMAIN orig.kwargs = {"days"} /\ orig.kwargs["days"] = 1
        /\ out.name = "hours") => out.value.num = Times(24, out.value.den)

\* While(weeks=1)
C20_Witness ==
    /\ out.op = "While"
    /\ DOMAIN orig.kwargs = {"weeks"}
    /\ orig.kwargs["weeks"] = 1
    /\ out.err = "TypeError"
    /\ IsNone(w)

\* While(days=1).hours
C20_WitnessHours ==
    /\ out.op = "getattr"
    /\ DOMAIN orig.kwargs = {"days"} /\ orig.kwargs["days"] = 1
    /\ out.name = "hours"
    /\ out.value.num = Times(24, out.value.den)

(***************************************************************************)
(* Properties of While arithmetic, under SpecWhile.                        *)
(***************************************************************************)
Computed == out.op \in {"add", "sub"}

\* C21: for all Whiles a and b, (a - b) == While(seconds=a.seconds -
\* b.seconds) and (a + b) == While(seconds=a.seconds + b.seconds) are true,
\* two separately constructed Whiles with the same scalar being equal.
C21_ArithmeticEqualsByScalar == Computed => out.eq

\* the scalars of the two sides, which == does not look at, are the same
C21_ScalarsAgree == Computed => out.result._seconds = out.expected._seconds

\* While(seconds=90) - While(seconds=30) against While(seconds=60)
C21_Witness ==
    /\ out.op = "sub"
    /\ orig.kwargs \in ExampleCalls
    /\ out.other._seconds = Seconds(30, 0)
    /\ out.result._seconds = Seconds(60, 0)
    /\ out.expected._seconds = Seconds(60, 0)
    /\ ~out.eq

(***************************************************************************)
(* Properties of a microsecond override given alone, under SpecParse.      *)
(***************************************************************************)
\* the specifier has no token for a fraction of a second
NoSubSecondToken(specifier) ==
    \A i \in DOMAIN GroupNames(in_string(specifier, substitutions_for_regex)) :
        GroupNames(in_string(specifier, substitutions_for_regex))[i]
            \notin {"_012345", "_12345", "_012", "_12"}

\* a call with a non-zero microsecond override, the millisecond left at its
\* default, and a specifier without a token for the fraction
OnlyMicrosecond ==
    /\ FromStringDone
    /\ orig.args.millisecond = Defaults(<<>>, <<>>).millisecond
    /\ ~IsNone(orig.args.microsecond)
    /\ Val(orig.args.microsecond) # 0
    /\ NoSubSecondToken(orig.args.specifier)

\* the same call without the microsecond override returns a When
ParsesWithoutOverride ==
    from_string([orig.args EXCEPT !.microsecond = Defaults(<<>>, <<>>).microsecond]).err
        = "none"

\* C22: a caller who gives from_string a non-zero microsecond override only,
\* for a specifier with no sub-second token, gets a When with that
\* microsecond; the default millisecond never raises the ambiguity error of
\* the pre-processing on its own.
C22_MicrosecondOverrideAlone ==
    OnlyMicrosecond =>
        /\ out.stage # "pre-processing"
        /\ ParsesWithoutOverride =>
              /\ out.err = "none"
              /\ w._utc.microsecond = Val(orig.args.microsecond)

\* from_string('2015-03-03 02:58:59', '1776-07-04 01:02:03', timezone='utc',
\*             microsecond=5)
C22_Witness ==
    /\ OnlyMicrosecond
    /\ ParsesWithoutOverride
    /\ orig.args.string = ParseStrings[1]
    /\ orig.args.specifier = ParseSpecifiers[1]
    /\ Val(orig.args.microsecond) = 5
    /\ out.err = "AmbiguousTimeError"
    /\ out.stage = "pre-processing"
    /\ IsNone(w)

\* the same microsecond with millisecond=None is taken over
C22_WitnessNoMillisecond ==
    /\ FromStringDone
    /\ IsNone(orig.args.millisecond)
    /\ orig.args.microsecond = Some(7)
    /\ orig.args.specifier = ParseSpecifiers[1]
    /\ out.err = "none"
    /\ w._utc.microsecond = 7

(***************************************************************************)
(* Properties of the 12-hour clock, under SpecParse.                       *)
(***************************************************************************)
\* the 24-hour hour of the 12-hour reading h: 12 AM is 0, 12 PM is 12
Conventional(h, pm) ==
    IF pm THEN (IF h = 12 THEN 12 ELSE h + 12) ELSE (IF h = 12 THEN 0 ELSE h)

\* a match with one 12-hour group of value 1..12, no 24-hour group, and
\* meridian markers that agree
TwelveHourReading ==
    /\ PastMatch
    /\ NoErrorBeforeHour
    /\ MeridianGroups # {}
    /\ \A a, b \in MeridianGroups :
          IsPm(GroupsOf(orig.args)[a]) = IsPm(GroupsOf(orig.args)[b])
    /\ Cardinality(TwelveHourGroups) = 1
    /\ "_13" \notin DOMAIN GroupsOf(orig.args)
    /\ \A group \in TwelveHourGroups : int(GroupsOf(orig.args)[group]) \in 1..12

\* the reading and its marker
ReadingHour == int(GroupsOf(orig.args)[CHOOSE group \in TwelveHourGroups : TRUE])

ReadingIsPm == \E m \in MeridianGroups : IsPm(GroupsOf(orig.args)[m])

\* the template of a round trip writes the hour as '01' with 'PM'
TwelveHourRoundTrip ==
    /\ out.op = "round_trip"
    /\ orig.specifier = Templates[2]

\* the hour from_string extracts from the text of the round trip
ParsedBackHour == from_string(Defaults(out.text, orig.specifier)).extracted.hour

\* it is the hour the When shows
HourParsesBack ==
    /\ ParsedBackHour.err = "none"
    /\ ParsedBackHour.value = Some(w._datetime.hour)

\* C23: a 12-hour reading h in 1..12 with a meridian marker parses to the
\* conventional 24-hour hour in 0..23 (12 AM gives 0, 12 PM gives 12, h PM
\* gives h + 12 for h < 12), so that the 12-hour text format writes for any
\* instant parses back to that instant, the hours 0 and 12 included.
C23_TwelveHourClock ==
    /\ TwelveHourReading =>
          /\ out.extracted.hour.err = "none"
          /\ out.extracted.hour.value = Some(Conventional(ReadingHour, ReadingIsPm))
          /\ Val(out.extracted.hour.value) \in 0..23
    /\ TwelveHourRoundTrip => HourParsesBack

\* the same with the readings of 12 and the instants of the hours 0 and 12
\* left out
C23_ExceptTwelve ==
    /\ (TwelveHourReading /\ ReadingHour # 12) =>
          /\ out.extracted.hour.err = "none"
          /\ out.extracted.hour.value = Some(Conventional(ReadingHour, ReadingIsPm))
    /\ (TwelveHourRoundTrip /\ w._datetime.hour % 12 # 0) => HourParsesBack

\* '12 am A.M.' parsed into a When showing noon
C23_Witness ==
    /\ TwelveHourReading
    /\ ReadingHour = 12
    /\ ~ReadingIsPm
    /\ orig.args.string = ParseStrings[14]
    /\ out.err = "none"
    /\ w._datetime.hour = 12

\* '12 pm P.M.' gives hour 24, which datetime rejects
C23_WitnessNoon ==
    /\ TwelveHourReading
    /\ ReadingHour = 12
    /\ ReadingIsPm
    /\ out.extracted.hour.value = Some(24)
    /\ out.err = "ValueError"
    /\ IsNone(w)

\* midnight formatted as 12 AM and parsed back as another instant
C23_WitnessMidnightRoundTrip ==
    /\ TwelveHourRoundTrip
    /\ w._datetime.hour = 0
    /\ ParsedBackHour.value = Some(12)
    /\ out.err = "none"
    /\ ~out.equal

(***************************************************************************)
(* Properties of the unpadded numeric tokens, under SpecParse.             *)
(***************************************************************************)
\* the value of the field an unpadded token stands for
TokenValue(token, dt) ==
    CASE token = <<"2">> -> dt.minute
      [] token = <<"3">> -> dt.second
      [] token = <<"1", "2">> -> dt.microsecond \div 1000
      [] token = <<"1", "2", "3", "4", "5">> -> dt.microsecond
      [] token = <<"1">> -> IF dt.hour % 12 = 0 THEN 12 ELSE dt.hour % 12
      [] token = <<"4">> -> dt.day
      [] token = <<"7">> -> dt.month

TokenFormatted == out.op = "format" /\ out.specifier \in UnpaddedTokens

\* C24: formatting an unpadded numeric token ('2', '3', '12', '12345', '1',
\* '4', '7') gives the decimal numeral of the field's value without leading
\* zeros, never the empty string: the value 0 is written '0'.
C24_UnpaddedNumeral ==
    TokenFormatted =>
        /\ out.result = Decimal(TokenValue(out.specifier, w._datetime))
        /\ out.result # <<>>

\* the same for the fields whose value is not 0
C24_UnpaddedNonZero ==
    (TokenFormatted /\ TokenValue(out.specifier, w._datetime) # 0) =>
        out.result = Decimal(TokenValue(out.specifier, w._datetime))

\* the minute of a When on the hour formatted with '2'
C24_Witness ==
    /\ TokenFormatted
    /\ out.specifier = <<"2">>
    /\ w._datetime.minute = 0
    /\ out.result = <<>>

\* a microsecond of 12345 formatted with '12345' and with '12'
C24_WitnessNonZero ==
    /\ TokenFormatted
    /\ w._datetime.microsecond = 12345
    /\ \/ out.specifier = <<"1", "2", "3", "4", "5">>
          /\ out.result = <<"1", "2", "3", "4", "5">>
       \/ out.specifier = <<"1", "2">> /\ out.result = <<"1", "2">>
====
